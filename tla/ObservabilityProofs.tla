-------------------------- MODULE ObservabilityProofs --------------------------
(***************************************************************************)
(* The counter of unrecognized frames, for any number of threads, whether  *)
(* or not prometheus_client can be imported.                               *)
(*                                                                         *)
(* The globals are written without a lock; the argument is that all        *)
(* threads who get as far as a collector get it from the registry, which   *)
(* forgets nothing while one of them is under way.                         *)
(***************************************************************************)
EXTENDS Observability, TLAPS

Idle == {"out", "lost", "raised"}

\* Only a stranger has the base name without the full one.
Whole == registry["base"] \in {"own", "sibling"} => registry["total"] = registry["base"]

\* What the global names, and what a thread has at hand, is in the registry.
Kept == counter # None => registry["total"] = counter
AtHand == \A t \in Threads : at[t] \in {"assign", "use"} => registry["total"] = local[t]

\* A thread that was refused finds why.
Taken == \A t \in Threads : at[t] = "lookup" => registry["base"] # None \/ registry["total"] # None

\* A counter that was there when a frame came is there as long as it is recorded.
Stays == \A t \in Threads : at[t] \notin Idle /\ ~early[t] => counter # None

IInv == TypeOK /\ Whole /\ Kept /\ AtHand /\ Taken /\ Stays /\ LossOnlyAtStart

------------------------------------------------------------------------------
LEMMA NamesFacts ==
  /\ "base" \in Names /\ "total" \in Names /\ None \notin Collectors
  /\ \A n \in Names : n = "base" \/ n = "total"
  /\ {"own", "sibling", "foreign"} = Collectors
  BY DEF Names, None, Collectors

\* A thread's step that moves it only.
LEMMA MoveType ==
  ASSUME TypeOK, NEW t \in Threads, NEW from, NEW to,
         to \in {"out", "claim", "import", "create", "lookup", "assign", "read",
                 "use", "lost", "raised"},
         Goes(t, from, to)
  PROVE  /\ at[t] = from /\ at'[t] = to /\ \A s \in Threads \ {t} : at'[s] = at[s]
         /\ at' \in [Threads -> {"out", "claim", "import", "create", "lookup", "assign",
                                 "read", "use", "lost", "raised"}]
  BY DEF TypeOK, Goes

LEMMA HoldType ==
  ASSUME TypeOK, NEW t \in Threads, NEW c \in Collectors \cup {None}, Holds(t, c)
  PROVE  /\ local'[t] = c /\ \A s \in Threads \ {t} : local'[s] = local[s]
         /\ local' \in [Threads -> Collectors \cup {None}]
  BY DEF TypeOK, Holds

LEMMA InitIInv == Init => IInv
<1> SUFFICES ASSUME Init
             PROVE  IInv
  OBVIOUS
<1>1. /\ \A t \in Threads : at[t] = "out" /\ local[t] = None /\ early[t] = FALSE
      /\ \A n \in Names : registry[n] = None
      /\ counter = None
  BY DEF Init
<1>2. TypeOK
  BY <1>1 DEF Init, TypeOK
<1>3. Whole /\ Kept /\ AtHand /\ Taken /\ Stays /\ LossOnlyAtStart
  BY <1>1, NamesFacts DEF Whole, Kept, AtHand, Taken, Stays, LossOnlyAtStart, Idle
<1>4. QED
  BY <1>2, <1>3 DEF IInv

------------------------------------------------------------------------------
\* A frame is recorded

LEMMA BeginKeeps ==
  ASSUME IInv, NEW t \in Threads, Begin(t)
  PROVE  IInv'
<1>1. TypeOK /\ at[t] \in Idle
  BY DEF IInv, Begin, Idle
<1>2. /\ at'[t] \in {"read", "claim"} /\ \A s \in Threads \ {t} : at'[s] = at[s]
      /\ at' = [at EXCEPT ![t] = IF attempted THEN "read" ELSE "claim"]
      /\ early'[t] = (counter = None) /\ \A s \in Threads \ {t} : early'[s] = early[s]
      /\ early' \in [Threads -> BOOLEAN]
  BY <1>1 DEF TypeOK, Begin
<1>3. /\ local'[t] = None /\ \A s \in Threads \ {t} : local'[s] = local[s]
      /\ local' \in [Threads -> Collectors \cup {None}]
  BY <1>1, HoldType DEF Begin
<1>4. UNCHANGED <<attempted, counter, registry, installed>>
  BY DEF Begin, globals, external
<1>5. TypeOK'
  <2>1. at' \in [Threads -> {"out", "claim", "import", "create", "lookup", "assign",
                             "read", "use", "lost", "raised"}]
    BY <1>1, <1>2 DEF TypeOK
  <2>2. \A s \in Threads : at'[s] \in {"assign", "use"} => local'[s] # None
    BY <1>1, <1>2, <1>3 DEF TypeOK
  <2>3. QED
    BY <1>1, <1>2, <1>3, <1>4, <2>1, <2>2 DEF TypeOK
<1>6. Whole' /\ Kept' /\ AtHand' /\ Taken'
  BY <1>2, <1>3, <1>4 DEF IInv, Whole, Kept, AtHand, Taken
<1>7. Stays' /\ LossOnlyAtStart'
  BY <1>2, <1>4 DEF IInv, Stays, LossOnlyAtStart, Idle
<1>8. QED
  BY <1>5, <1>6, <1>7 DEF IInv

\* Claim, Import, Lookup, Read and Increment write neither counter nor registry.
LEMMA LocalStepKeeps ==
  ASSUME IInv, NEW t \in Threads, NEW from, NEW to, Goes(t, from, to),
         from \notin Idle,
         to \in {"out", "import", "create", "assign", "read", "use", "lost", "raised"},
         attempted' \in BOOLEAN, UNCHANGED <<counter, external, early>>,
         NEW c \in Collectors \cup {None}, Holds(t, c) \/ (UNCHANGED local /\ c = local[t]),
         to \in {"assign", "use"} => c # None /\ registry["total"] = c,
         to = "lost" => early[t] \/ ~installed,
         to = "raised" => \E n \in Names : registry[n] = "foreign"
  PROVE  IInv'
<1>1. TypeOK /\ UNCHANGED <<registry, installed>>
  BY DEF IInv, external
<1>2. /\ at[t] = from /\ at'[t] = to /\ \A s \in Threads \ {t} : at'[s] = at[s]
      /\ at' \in [Threads -> {"out", "claim", "import", "create", "lookup", "assign",
                              "read", "use", "lost", "raised"}]
  BY <1>1, MoveType
<1>3. /\ local'[t] = c /\ \A s \in Threads \ {t} : local'[s] = local[s]
      /\ local' \in [Threads -> Collectors \cup {None}]
  BY <1>1, HoldType DEF TypeOK
<1>4. TypeOK'
  BY <1>1, <1>2, <1>3 DEF TypeOK
<1>5. Whole' /\ Kept' /\ AtHand' /\ Taken' /\ Stays' /\ LossOnlyAtStart'
  BY <1>1, <1>2, <1>3 DEF IInv, Whole, Kept, AtHand, Taken, Stays, LossOnlyAtStart
<1>6. QED
  BY <1>4, <1>5 DEF IInv

LEMMA LocalStepsKeep ==
  ASSUME IInv, NEW t \in Threads,
         Claim(t) \/ Import(t) \/ Lookup(t) \/ Read(t) \/ Increment(t)
  PROVE  IInv'
<1>1. /\ TypeOK /\ local[t] \in Collectors \cup {None} /\ None \in Collectors \cup {None}
      /\ registry["total"] \in Collectors \cup {None} /\ counter \in Collectors \cup {None}
  BY NamesFacts DEF IInv, TypeOK
<1>2. CASE Claim(t)
  BY <1>1, <1>2, LocalStepKeeps DEF Claim, Idle
<1>3. CASE Import(t)
  BY <1>1, <1>3, LocalStepKeeps DEF Import, Idle, globals, TypeOK
<1>4. CASE Lookup(t)
  <2>1. at[t] = "lookup" => registry["base"] # None \/ registry["total"] # None
    BY DEF IInv, Taken
  <2>2. registry["total"] = None /\ at[t] = "lookup" => registry["base"] = "foreign"
    <3>1. registry["base"] \in Collectors \cup {None} /\ None \notin {"own", "sibling"}
      BY <1>1, NamesFacts DEF TypeOK, None
    <3>2. QED
      BY <2>1, <3>1 DEF IInv, Whole, Collectors
  <2>3. at[t] = "lookup" /\ UNCHANGED <<attempted, counter, external, early>>
    BY <1>4 DEF Lookup, Goes, globals
  <2>4. attempted' \in BOOLEAN
    BY <1>1, <2>3 DEF TypeOK
  <2>5. QED
    BY <1>1, <1>4, <2>2, <2>3, <2>4, NamesFacts, LocalStepKeeps DEF Lookup, Idle
<1>5. CASE Read(t)
  <2>1. at[t] = "read" /\ UNCHANGED <<attempted, counter, external, early>>
    BY <1>5 DEF Read, Goes, globals
  <2>2. counter = None => early[t]
    BY <2>1 DEF IInv, Stays, Idle
  <2>3. counter # None => registry["total"] = counter
    BY DEF IInv, Kept
  <2>4. attempted' \in BOOLEAN
    BY <1>1, <2>1 DEF TypeOK
  <2>5. QED
    BY <1>1, <1>5, <2>1, <2>2, <2>3, <2>4, LocalStepKeeps DEF Read, Idle
<1>6. CASE Increment(t)
  <2>1. at[t] = "use" /\ UNCHANGED <<attempted, counter, external, early>>
    BY <1>6 DEF Increment, Goes, globals
  <2>2. local[t] = "foreign" => registry["total"] = "foreign"
    BY <2>1 DEF IInv, AtHand
  <2>3. attempted' \in BOOLEAN
    BY <1>1, <2>1 DEF TypeOK
  <2>4. QED
    BY <1>1, <1>6, <2>1, <2>2, <2>3, NamesFacts, LocalStepKeeps DEF Increment, Idle
<1>7. QED
  BY <1>2, <1>3, <1>4, <1>5, <1>6

\* The registry fills up: what is in it stays.
LEMMA CreateKeeps ==
  ASSUME IInv, NEW t \in Threads, Create(t)
  PROVE  IInv'
<1>1. TypeOK /\ UNCHANGED <<attempted, counter, installed, early>>
  BY DEF IInv, Create, globals
<1>2. CASE /\ \A n \in Names : registry[n] = None
           /\ registry' = [n \in Names |-> "own"]
           /\ Goes(t, "create", "assign") /\ Holds(t, "own")
  <2>1. /\ at[t] = "create" /\ at'[t] = "assign" /\ \A s \in Threads \ {t} : at'[s] = at[s]
        /\ at' \in [Threads -> {"out", "claim", "import", "create", "lookup", "assign",
                                "read", "use", "lost", "raised"}]
    BY <1>1, <1>2, MoveType
  <2>2. /\ local'[t] = "own" /\ \A s \in Threads \ {t} : local'[s] = local[s]
        /\ local' \in [Threads -> Collectors \cup {None}]
    BY <1>1, <1>2, NamesFacts, HoldType
  <2>3. /\ registry["base"] = None /\ registry["total"] = None
        /\ registry'["base"] = "own" /\ registry'["total"] = "own"
        /\ registry' \in [Names -> Collectors \cup {None}]
    BY <1>2, NamesFacts
  <2>4. TypeOK'
    BY <1>1, <2>1, <2>2, <2>3 DEF TypeOK, None
  <2>5. counter = None
    BY <2>3 DEF IInv, Kept
  <2>6. \A s \in Threads : at[s] \notin {"assign", "use", "raised"}
    <3>1. \A n \in Names : registry[n] # "foreign"
      BY <1>2 DEF None
    <3>2. QED
      BY <2>3, <3>1 DEF IInv, TypeOK, AtHand, LossOnlyAtStart, None
  <2>7. Whole' /\ Kept' /\ AtHand' /\ Taken' /\ Stays' /\ LossOnlyAtStart'
    BY <1>1, <2>1, <2>2, <2>3, <2>5, <2>6
       DEF IInv, Whole, Kept, AtHand, Taken, Stays, LossOnlyAtStart, Idle, None
  <2>8. QED
    BY <2>4, <2>7 DEF IInv
<1>3. CASE /\ \E n \in Names : registry[n] # None
           /\ Goes(t, "create", "lookup") /\ UNCHANGED <<registry, local>>
  <2>1. /\ at[t] = "create" /\ at'[t] = "lookup" /\ \A s \in Threads \ {t} : at'[s] = at[s]
        /\ at' \in [Threads -> {"out", "claim", "import", "create", "lookup", "assign",
                                "read", "use", "lost", "raised"}]
    BY <1>1, <1>3, MoveType
  <2>2. registry["base"] # None \/ registry["total"] # None
    BY <1>3, NamesFacts
  <2>3. TypeOK'
    BY <1>1, <1>3, <2>1 DEF TypeOK
  <2>4. Whole' /\ Kept' /\ AtHand' /\ Taken' /\ Stays' /\ LossOnlyAtStart'
    BY <1>1, <1>3, <2>1, <2>2
       DEF IInv, Whole, Kept, AtHand, Taken, Stays, LossOnlyAtStart, Idle
  <2>5. QED
    BY <2>3, <2>4 DEF IInv
<1>4. QED
  BY <1>2, <1>3 DEF Create

LEMMA AssignKeeps ==
  ASSUME IInv, NEW t \in Threads, Assign(t)
  PROVE  IInv'
<1>1. /\ TypeOK /\ UNCHANGED <<attempted, registry, installed, local, early>>
      /\ counter' = local[t] /\ Goes(t, "assign", "read")
  BY DEF IInv, Assign, external
<1>2. /\ at[t] = "assign" /\ at'[t] = "read" /\ \A s \in Threads \ {t} : at'[s] = at[s]
      /\ at' \in [Threads -> {"out", "claim", "import", "create", "lookup", "assign",
                              "read", "use", "lost", "raised"}]
  BY <1>1, MoveType
<1>3. counter' # None /\ counter' \in Collectors \cup {None} /\ registry["total"] = counter'
  BY <1>1, <1>2 DEF IInv, TypeOK, AtHand
<1>4. TypeOK'
  BY <1>1, <1>2, <1>3 DEF TypeOK
<1>5. Whole' /\ Kept' /\ AtHand' /\ Taken' /\ Stays' /\ LossOnlyAtStart'
  BY <1>1, <1>2, <1>3 DEF IInv, Whole, Kept, AtHand, Taken, Stays, LossOnlyAtStart
<1>6. QED
  BY <1>4, <1>5 DEF IInv

------------------------------------------------------------------------------
\* Others

LEMMA ResetKeeps ==
  ASSUME IInv, Reset
  PROVE  IInv'
<1>1. /\ \A t \in Threads : at'[t] = "out" /\ local'[t] = None /\ early'[t] = FALSE
      /\ counter' = None /\ attempted' = FALSE /\ installed' = installed
  BY DEF Reset
<1>2. registry \in [Names -> Collectors \cup {None}]
  BY DEF IInv, TypeOK
<1>3. \/ counter = None /\ registry' = registry
      \/ /\ counter # None
         /\ registry' = [n \in Names |-> IF registry[n] = counter THEN None ELSE registry[n]]
  BY DEF Reset
<1>4. registry' \in [Names -> Collectors \cup {None}]
  BY <1>2, <1>3
<1>5. TypeOK'
  BY <1>1, <1>4 DEF IInv, TypeOK, Reset
<1>6. Whole'
  <2>1. CASE counter = None
    BY <1>3, <2>1 DEF IInv, Whole
  <2>2. CASE counter # None
    <3>1. registry["total"] = counter
      BY <2>2 DEF IInv, Kept
    <3>2. registry'["base"] = registry["base"] \/ registry'["base"] = None
      BY <1>3, <2>2, NamesFacts
    <3>3. registry["base"] \in {"own", "sibling"} => registry'["base"] = None
      BY <1>3, <2>2, <3>1, NamesFacts DEF IInv, Whole
    <3>4. QED
      BY <3>2, <3>3 DEF Whole, None
  <2>3. QED
    BY <2>1, <2>2
<1>7. Kept' /\ AtHand' /\ Taken' /\ Stays' /\ LossOnlyAtStart'
  BY <1>1 DEF Kept, AtHand, Taken, Stays, LossOnlyAtStart, Idle
<1>8. QED
  BY <1>5, <1>6, <1>7 DEF IInv

LEMMA SiblingKeeps ==
  ASSUME IInv, Sibling
  PROVE  IInv'
<1>1. TypeOK /\ UNCHANGED <<attempted, counter, installed, at, local, early>>
  BY DEF IInv, Sibling, globals
<1>2. PICK c \in {"sibling", "foreign"}, taken \in SUBSET {n \in Names : registry[n] = None} :
        /\ taken # {} /\ (c = "sibling" => "total" \in taken)
        /\ registry' = [n \in Names |-> IF n \in taken THEN c ELSE registry[n]]
  BY DEF Sibling
<1>3. /\ registry' \in [Names -> Collectors \cup {None}]
      /\ \A n \in Names : registry[n] # None => registry'[n] = registry[n]
      /\ \A n \in Names : registry'[n] = registry[n] \/ (n \in taken /\ registry'[n] = c)
  BY <1>1, <1>2, NamesFacts DEF TypeOK
<1>4. TypeOK'
  BY <1>1, <1>3 DEF TypeOK
<1>5. Whole'
  <2> SUFFICES ASSUME registry'["base"] \in {"own", "sibling"}
               PROVE  registry'["total"] = registry'["base"]
    BY DEF Whole
  <2>1. CASE registry'["base"] = registry["base"]
    BY <1>3, <2>1, NamesFacts DEF IInv, Whole, None
  <2>2. CASE registry'["base"] = c
    BY <1>2, <2>2, NamesFacts
  <2>3. QED
    BY <1>3, <2>1, <2>2, NamesFacts
<1>6. Kept'
  BY <1>1, <1>3, NamesFacts DEF IInv, Kept
<1>7. AtHand'
  BY <1>1, <1>3, NamesFacts DEF IInv, TypeOK, AtHand
<1>8. Taken'
  BY <1>1, <1>3, NamesFacts DEF IInv, Taken
<1>9. Stays'
  BY <1>1 DEF IInv, Stays
<1>10. LossOnlyAtStart'
  <2>1. \A n \in Names : registry[n] = "foreign" => registry'[n] = "foreign"
    BY <1>3 DEF None
  <2>2. QED
    BY <1>1, <2>1 DEF IInv, LossOnlyAtStart
<1>11. QED
  BY <1>4, <1>5, <1>6, <1>7, <1>8, <1>9, <1>10 DEF IInv

LEMMA StepIInv == IInv /\ [Next]_vars => IInv'
<1> SUFFICES ASSUME IInv, [Next]_vars
             PROVE  IInv'
  OBVIOUS
<1>1. ASSUME NEW t \in Threads,
             \/ Begin(t) \/ Claim(t) \/ Import(t) \/ Create(t) \/ Lookup(t)
             \/ Assign(t) \/ Read(t) \/ Increment(t)
      PROVE  IInv'
  BY <1>1, BeginKeeps, LocalStepsKeep, CreateKeeps, AssignKeeps
<1>2. CASE Reset \/ Sibling
  BY <1>2, ResetKeeps, SiblingKeeps
<1>3. CASE UNCHANGED vars
  BY <1>3 DEF vars, globals, external, IInv, TypeOK, Whole, Kept, AtHand, Taken, Stays,
              LossOnlyAtStart
<1>4. QED
  BY <1>1, <1>2, <1>3 DEF Next

\* The invariant holds of every behaviour.
THEOREM Invariant == Spec => []IInv
<1>1. QED
  BY InitIInv, StepIInv, PTL DEF Spec

\* The globals, the registry and the threads of record_unrecognized_frame() stay in
\* their types; in particular no thread assigns or increments what it has not got.
THEOREM TypeCorrect == Spec => []TypeOK
<1>1. IInv => TypeOK
  BY DEF IInv
<1>2. QED
  BY <1>1, Invariant, PTL

\* Whichever thread won the race of _ensure_counter(), a frame goes to the counter
\* that is exported.
THEOREM FramesGoToTheExported == Spec => []Exported
<1>1. IInv => Exported
  BY DEF IInv, AtHand, Exported
<1>2. QED
  BY <1>1, Invariant, PTL

\* A frame is left out only if there was no counter when its recording began, and
\* recording raises only if a stranger, of whatever kind, has one of the metric's two
\* names.
THEOREM FramesLostAtStartOnly == Spec => []LossOnlyAtStart
<1>1. IInv => LossOnlyAtStart
  BY DEF IInv
<1>2. QED
  BY <1>1, Invariant, PTL
==============================================================================
