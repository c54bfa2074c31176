---------------------------- MODULE DeviceLimits ----------------------------
(***************************************************************************)
(* The table device_limits: ApplyDeviceLimits, which fills it from the     *)
(* specifications in the environment, and the two places that read it,     *)
(* ModelAllowed (in Go) and the WHERE of SelectOllamaDevice (in SQL).      *)
(*                                                                         *)
(* Memory and sizes are in tenths of a GB, params in thousandths of the    *)
(* unit B, as in ModelTiers.  A list of models is NoList if the            *)
(* specification does not state it (a nil slice, stored as JSON null), or  *)
(* a set of entries [id, blank]; blank means that the entry is written     *)
(* with blanks around the name, which may be empty (NoName).               *)
(***************************************************************************)
EXTENDS ModelTiers

CONSTANTS
    Devices,
    Models,      \* model ids
    Described,   \* Described[m]: what /api/tags says of m
    NoName, NoList, NoRow,
    Strict       \* STRICT_MODEL_LIMITS

VARIABLES
    rows,        \* devices with a row in devices
    tagged,      \* those whose tags say ollama
    env,         \* the environment of the process: env.specs, env.default
    limit,       \* limit[d]: the row of device_limits, or NoRow
    applying,    \* whether ApplyDeviceLimits runs
    due,         \* devices named in the specifications that it has still to write
    rest         \* devices of the default that it has still to write

limitVars == <<limit, applying, due, rest>>

Lists == {NoList} \cup SUBSET [id : Models \cup {NoName}, blank : BOOLEAN]
Maybe == Nat \cup {Unset}
Spec  == [vram : Maybe, ram : Maybe, params : Maybe, size : Maybe, context : Maybe,
          allow : Lists, deny : Lists]
Row   == [params : Maybe, size : Maybe, context : Maybe, allow : Lists, deny : Lists]

TypeOK ==
    /\ limit    \in [Devices -> {NoRow} \cup Row]
    /\ applying \in BOOLEAN
    /\ due      \in SUBSET Devices
    /\ rest     \in SUBSET Devices

Init ==
    /\ limit    = [d \in Devices |-> NoRow]
    /\ applying = FALSE
    /\ due      = {}
    /\ rest     = {}
-----------------------------------------------------------------------------
(* DeriveDeviceLimits. *)

Memory(s) == IF s.vram > 0 THEN s.vram ELSE IF s.ram > 0 THEN s.ram ELSE 0

\* floor(mem * 0.75 * 2) / 2 above 16 GB.
ParamsFor(mem) == IF mem <= 80 THEN 5000 ELSE IF mem <= 160 THEN 12000
                  ELSE ((mem * 3) \div 20) * 500

SizeFor(mem) == (mem * 8) \div 10

\* Compared with context_k, which counts thousands.
ContextFor(mem) == IF mem <= 80 THEN 4096 ELSE IF mem <= 160 THEN 8192 ELSE 16384

\* A limit that is stated stays; without any memory the others stay unset.
OrElse(stated, mem, derived) == IF stated = Unset /\ mem > 0 THEN derived ELSE stated

DeriveDeviceLimits(s) ==
    LET mem == Memory(s)
    IN  [params  |-> OrElse(s.params, mem, ParamsFor(mem)),
         size    |-> OrElse(s.size, mem, SizeFor(mem)),
         context |-> OrElse(s.context, mem, ContextFor(mem)),
         allow   |-> s.allow,
         deny    |-> s.deny]
-----------------------------------------------------------------------------
(***************************************************************************)
(* ApplyDeviceLimits, at the start of the process and by the ticker: the   *)
(* devices that are named, and then, if there is a default "*", those that *)
(* were tagged when it began.  An INSERT that fails ends it; it fails if   *)
(* the device has no row in devices.                                       *)
(***************************************************************************)
Named == DOMAIN env.specs

SpecOf(d) == IF d \in Named THEN env.specs[d] ELSE env.default

\* Error: the devices of the default are left out.
BeginNamed ==
    /\ applying' = TRUE
    /\ due'  = Named
    /\ rest' = {}
    /\ UNCHANGED limit

Begin ==
    /\ applying' = TRUE
    /\ due'  = Named
    /\ rest' = IF env.default = NoRow THEN {} ELSE tagged \ Named
    /\ UNCHANGED limit

End == applying' = FALSE /\ due' = {} /\ rest' = {}

Write(d) ==
    /\ d \in IF due # {} THEN due ELSE rest
    /\ IF d \in rows
       THEN /\ limit' = [limit EXCEPT ![d] = DeriveDeviceLimits(SpecOf(d))]
            /\ due'   = due \ {d}
            /\ rest'  = rest \ {d}
            /\ UNCHANGED applying
       ELSE End /\ UNCHANGED limit

Finish == due = {} /\ rest = {} /\ End /\ UNCHANGED limit

\* The rows of device_limits go with those of devices (ON DELETE CASCADE).
Cascade(gone) == limit' = [d \in Devices |-> IF d \in gone THEN NoRow ELSE limit[d]]
-----------------------------------------------------------------------------
(* The two filters, for a model that is available on the device. *)

Holds(bound, value) ==
    IF bound = Unset THEN TRUE
    ELSE IF value = Unset THEN ~Strict ELSE value <= bound

NumbersHold(row, m) ==
    /\ Holds(row.params, Params(Described[m]))
    /\ Holds(row.size, Size(Described[m]))
    /\ Holds(row.context, ContextK(Described[m]))

\* parseStringList trims and drops empty names; an unstated list is an empty one.
Listed(list) == IF list = NoList THEN {} ELSE {e.id : e \in list} \ {NoName}

\* ModelAllowed.
ModelAllowed(d, m) ==
    limit[d] # NoRow =>
        LET row == limit[d]
        IN  /\ Listed(row.allow) # {} => m \in Listed(row.allow)
            /\ m \notin Listed(row.deny)
            /\ NumbersHold(row, m)

\* The operator ? of jsonb: the name itself; JSON null contains nothing.
Contains(list, m) == list # NoList /\ [id |-> m, blank |-> FALSE] \in list

\* Error: the deny list is not read.
AdmitsDenied(d, m) ==
    limit[d] # NoRow =>
        LET row == limit[d]
        IN  /\ row.allow = {} \/ Contains(row.allow, m)
            /\ NumbersHold(row, m)

\* The WHERE of SelectOllamaDevice.
SqlAdmits(d, m) ==
    limit[d] # NoRow =>
        LET row == limit[d]
        IN  /\ row.allow = {} \/ Contains(row.allow, m)
            /\ row.deny = {} \/ ~Contains(row.deny, m)
            /\ NumbersHold(row, m)
=============================================================================
