----------------------------- MODULE Observability -----------------------------
(***************************************************************************)
(* The counter of unrecognized frames                                      *)
(* (src/juniper_cascor_client/observability.py): two module globals,       *)
(* _unrecognized_counter and _init_attempted, that the first frame         *)
(* initialises, and the process-wide registry of prometheus_client.        *)
(*                                                                         *)
(* Streams run on the event loops of several threads and share the         *)
(* globals without a lock: every access of a global is a step of its own.  *)
(* The registry has a lock; the import system has one.                     *)
(***************************************************************************)
EXTENDS Naturals

CONSTANTS
  Threads,    \* threads that record frames
  Installed   \* the values of "prometheus_client can be imported"

ASSUME ObservabilityAssumption == Installed \subseteq BOOLEAN

VARIABLES
  attempted,  \* _init_attempted
  counter,    \* _unrecognized_counter
  registry,   \* external: the collector under each name
  installed,  \* external: prometheus_client can be imported
  at,         \* where each thread's record_unrecognized_frame() is
  local,      \* the collector it has at hand
  early       \* history: it began before there was a counter

globals == <<attempted, counter>>
external == <<registry, installed>>
vars == <<globals, external, at, local, early>>

\* A Counter goes under its name and under others derived from it: without "_total",
\* or with "_created" instead.  "base" stands for those.
Names == {"total", "base"}
None == "none"
\* "sibling" takes the labels of this counter; "foreign" does not, or has the base
\* name alone.
Collectors == {"own", "sibling", "foreign"}

TypeOK ==
  /\ attempted \in BOOLEAN /\ counter \in Collectors \cup {None}
  /\ registry \in [Names -> Collectors \cup {None}] /\ installed \in Installed
  /\ at \in [Threads -> {"out", "claim", "import", "create", "lookup", "assign", "read",
                         "use", "lost", "raised"}]
  /\ local \in [Threads -> Collectors \cup {None}]
  /\ \A t \in Threads : at[t] \in {"assign", "use"} => local[t] # None
  /\ early \in [Threads -> BOOLEAN]

Init ==
  /\ attempted = FALSE /\ counter = None
  /\ registry = [n \in Names |-> None] /\ installed \in Installed
  /\ at = [t \in Threads |-> "out"]
  /\ local = [t \in Threads |-> None] /\ early = [t \in Threads |-> FALSE]

Goes(t, from, to) == at[t] = from /\ at' = [at EXCEPT ![t] = to]
Holds(t, c) == local' = [local EXCEPT ![t] = c]

------------------------------------------------------------------------------
\* A frame is recorded

\* The log line, and the test of _init_attempted.
Begin(t) ==
  /\ at[t] \in {"out", "lost", "raised"}
  /\ at' = [at EXCEPT ![t] = IF attempted THEN "read" ELSE "claim"]
  /\ early' = [early EXCEPT ![t] = counter = None]
  /\ Holds(t, None) /\ UNCHANGED <<globals, external>>

\* Mutant: the initialisation begins by forgetting what there is.
ClaimClears(t) ==
  /\ Goes(t, "claim", "import") /\ attempted' = TRUE /\ counter' = None
  /\ UNCHANGED <<external, local, early>>

Claim(t) ==
  /\ Goes(t, "claim", "import") /\ attempted' = TRUE
  /\ UNCHANGED <<counter, external, local, early>>

Import(t) ==
  /\ \/ installed /\ Goes(t, "import", "create")
     \/ ~installed /\ Goes(t, "import", "lost")
  /\ UNCHANGED <<globals, external, local, early>>

\* Counter(...) registers itself under its names, or raises ValueError when one
\* of them is taken.
\* Mutant: the new counter is used although it could not be registered.
CreateAnyway(t) ==
  /\ Goes(t, "create", "assign") /\ Holds(t, "own")
  /\ registry' = (IF \A n \in Names : registry[n] = None
                  THEN [n \in Names |-> "own"] ELSE registry)
  /\ UNCHANGED <<globals, installed, early>>

Create(t) ==
  /\ \/ /\ \A n \in Names : registry[n] = None
        /\ registry' = [n \in Names |-> "own"]
        /\ Goes(t, "create", "assign") /\ Holds(t, "own")
     \/ /\ \E n \in Names : registry[n] # None
        /\ Goes(t, "create", "lookup") /\ UNCHANGED <<registry, local>>
  /\ UNCHANGED <<globals, installed, early>>

\* What has the full name is adopted, whatever it is; when it is only the base name
\* that somebody took, the ValueError goes on to the stream.
\* Mutant: whether there is one or not.
LookupBlind(t) ==
  /\ Goes(t, "lookup", "assign") /\ Holds(t, registry["total"])
  /\ UNCHANGED <<globals, external, early>>

Lookup(t) ==
  /\ \/ registry["total"] = None /\ Goes(t, "lookup", "raised")
     \/ registry["total"] # None /\ Goes(t, "lookup", "assign")
  /\ Holds(t, registry["total"])
  /\ UNCHANGED <<globals, external, early>>

Assign(t) ==
  /\ Goes(t, "assign", "read") /\ counter' = local[t]
  /\ UNCHANGED <<attempted, external, local, early>>

\* _unrecognized_counter is returned.
Read(t) ==
  /\ \/ counter = None /\ Goes(t, "read", "lost")
     \/ counter # None /\ Goes(t, "read", "use")
  /\ Holds(t, counter) /\ UNCHANGED <<globals, external, early>>

\* labels().inc(), which raises if the adopted collector has other labels, or none.
Increment(t) ==
  /\ IF local[t] = "foreign" THEN Goes(t, "use", "raised") ELSE Goes(t, "use", "out")
  /\ Holds(t, None)
  /\ UNCHANGED <<globals, external, early>>

------------------------------------------------------------------------------
\* Others

\* reset_for_tests(), between two tests.
Reset ==
  /\ \A t \in Threads : at[t] \in {"out", "lost", "raised"}
  /\ attempted' = FALSE /\ counter' = None
  /\ registry' = (IF counter = None THEN registry
                  ELSE [n \in Names |-> IF registry[n] = counter THEN None ELSE registry[n]])
  /\ at' = [t \in Threads |-> "out"] /\ local' = [t \in Threads |-> None]
  /\ early' = [t \in Threads |-> FALSE]
  /\ UNCHANGED installed

\* External: somebody else registers a collector of either kind: the same counter,
\* or a gauge, say, that takes the full name alone or the base name alone.
Sibling ==
  /\ installed
  /\ \E c \in {"sibling", "foreign"}, taken \in SUBSET {n \in Names : registry[n] = None} :
       /\ taken # {} /\ (c = "sibling" => "total" \in taken)
       /\ \A n \in Names : registry[n] # c
       /\ registry' = [n \in Names |-> IF n \in taken THEN c ELSE registry[n]]
  /\ UNCHANGED <<globals, installed, at, local, early>>

Next ==
  \/ \E t \in Threads : \/ Begin(t) \/ Claim(t) \/ Import(t) \/ Create(t) \/ Lookup(t)
                        \/ Assign(t) \/ Read(t) \/ Increment(t)
  \/ Reset \/ Sibling

Spec == Init /\ [][Next]_vars

------------------------------------------------------------------------------
\* Properties

\* Whatever thread made or adopted it, the counter that a frame goes to is the
\* one that the registry exports under the metric's name (the ValueError branch
\* of _ensure_counter()).
Exported == \A t \in Threads : at[t] = "use" => registry["total"] = local[t]

\* A frame is left out only if there was no counter when its recording began: while
\* another thread was initialising, or, for good, after the one initialisation had
\* failed (_init_attempted stays set).  With a counter none is.  The stream that
\* records is disturbed only if a stranger has the full name or the base name: it is
\* adopted and refuses the labels, or nothing can be adopted.
LossOnlyAtStart ==
  \A t \in Threads : /\ at[t] = "lost" => early[t] \/ ~installed
                     /\ at[t] = "raised" => \E n \in Names : registry[n] = "foreign"
==============================================================================
