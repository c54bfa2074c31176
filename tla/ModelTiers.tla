----------------------------- MODULE ModelTiers -----------------------------
(***************************************************************************)
(* How discovery classes a model that a device offers, and what smart      *)
(* routing asks of the catalogue.  Everything here is a function of its    *)
(* arguments: Discovery stores the classes, and the router compares them.  *)
(*                                                                         *)
(* A model is known by what /api/tags says of it:                          *)
(*   name    the part of its name that inferContextK tells apart           *)
(*   embed   whether "embed" occurs in its name                            *)
(*   number, unit   its parameter_size in tenths ("7.6B" is 76, "B"), or   *)
(*                  unit "none" if it has none that can be parsed          *)
(*   size    its size in tenths of a GB, 0 if it is not stated             *)
(***************************************************************************)
EXTENDS Integers

Unset == -1  \* a nil pointer, and SQL's NULL

Names == {"tinyllama", "yi", "qwen", "llama", "phi4-reasoning", "gemma", "any"}

Model == [name : Names, embed : BOOLEAN, number : Nat,
          unit : {"B", "M", "K", "none"}, size : Nat]

\* params_b in thousandths; a suffix that is missing counts as B.
Params(m) == CASE m.unit = "B" -> m.number * 100
               [] m.unit = "M" -> m.number \div 10
               [] m.unit = "K" -> m.number \div 10000
               [] OTHER        -> Unset

\* size_gb in tenths; nullableFloat stores no zero.
Size(m) == IF m.size = 0 THEN Unset ELSE m.size

Tier(m) == CASE m.embed            -> "embed"
             [] Params(m) = Unset  -> ""
             [] Params(m) <= 1200  -> "tiny"
             [] Params(m) <= 2000  -> "small"
             [] Params(m) <= 4500  -> "medium"
             [] Params(m) <= 10000 -> "large"
             [] OTHER              -> "xl"

\* context_k, in thousands of tokens; the families of a size share a name here.
ContextK(m) == CASE m.name = "tinyllama"      -> 2
                 [] m.name = "yi"             -> 4
                 [] m.name = "qwen"           -> 32
                 [] m.name = "llama"          -> 128
                 [] m.name = "phi4-reasoning" -> 16
                 [] m.embed                   -> 8
                 [] m.name = "gemma"          -> 8
                 [] OTHER                     -> 4

Kind(m) == IF m.embed THEN "embed" ELSE "chat"
-----------------------------------------------------------------------------
(* The request: a quality, and a prompt of a number of bytes. *)

Qualities == {"turbo", "economy", "standard", "premium", "ultra", "max"}

EstimateTokens(bytes) == IF bytes \div 4 < 256 THEN 256 ELSE bytes \div 4

\* 0 up to 4K tokens, 1 up to 32K, 2 above.
Bucket(tokens) == IF tokens > 32000 THEN 2 ELSE IF tokens > 4000 THEN 1 ELSE 0

\* Error: the context is measured in units of ten thousand.
MinContextSmall(tokens) == IF tokens \div 10000 < 1 THEN 1 ELSE tokens \div 10000

MinContextK(tokens) == IF tokens \div 1000 < 1 THEN 1 ELSE tokens \div 1000

\* qualityTiers; the order of the tiers only orders the rows found.
LocalTiers(quality, bucket) ==
    CASE bucket = 2 \/ quality = "max" -> {}
      [] quality = "turbo"    -> IF bucket = 0 THEN {"tiny"} ELSE {"tiny", "small"}
      [] quality = "economy"  -> IF bucket = 0 THEN {"tiny", "small"} ELSE {"small", "medium"}
      [] quality = "standard" -> IF bucket = 0 THEN {"small", "medium"} ELSE {"medium", "large"}
      [] quality = "premium"  -> IF bucket = 0 THEN {"medium", "large"} ELSE {"large", "xl"}
      [] OTHER                -> IF bucket = 0 THEN {"large", "xl"} ELSE {"xl"}

\* The WHERE of findLocalModel, as far as it is about the model.
FitsLocally(m, quality, bytes) ==
    LET tokens == EstimateTokens(bytes)
    IN  /\ Tier(m) \in LocalTiers(quality, Bucket(tokens))
        /\ ContextK(m) >= MinContextK(tokens)
        /\ Kind(m) # "embed"
=============================================================================
