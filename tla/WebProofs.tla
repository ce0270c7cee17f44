----------------------------- MODULE WebProofs -----------------------------
(***************************************************************************)
(* Proofs about what the web pages and the service's settings do with each *)
(* other's answers: Configuration, for any threads, settings and requests; *)
(* and Dashboard, for any number of pages opened, seconds and failures.    *)
(* They share no state: the names of Dashboard are those with D!.          *)
(***************************************************************************)
EXTENDS Configuration, DashboardState, FiniteSetTheorems, TLAPS

\* What every variable may be.
Typed ==
  /\ running \in BOOLEAN
  /\ cfg \in Configs /\ saved \in Configs
  /\ thresholds \in [AlertFields -> AnyValue] /\ retention \in [RetentionFields -> AnyValue]
  /\ given \in [Paths -> FirstFiles]
  /\ file \in Texts \cup {Missing, Emptied, Garbled}
  /\ pc \in [Threads -> {"idle", "apply", "dump", "reply"}]
  /\ body \in [Threads -> Bodies]
  /\ text \in [Threads -> Texts]
  /\ at \in [Threads -> Nat \ {0}]
  /\ alone \in [Threads -> BOOLEAN] /\ kept \in BOOLEAN

\* What is on its way to the file is allowed, too.
ReadOut == \A t \in Threads, f \in Fields : text[t][f] \in Legal(f) \cup {Absent}

RangeInv == Typed /\ SettingsInRange /\ ReadOut

LEMMA OrderTypes ==
  /\ Len(ApplyOrder) \in Nat /\ \A i \in 1..Len(ApplyOrder) : ApplyOrder[i] \in Fields
  /\ Len(DumpOrder) \in Nat /\ \A i \in 1..Len(DumpOrder) : DumpOrder[i] \in Fields
BY OrdersAssumption

LEMMA DefaultsTyped == Defaults \in Configs /\ \A f \in Fields : Defaults[f] \in Values
BY ValuesAssumption DEF Configs, AnyValue

LEMMA LoadTyped == ASSUME NEW content PROVE Load(content) \in Configs
BY DefaultsTyped DEF Load, Configs, Texts, AnyValue

\* What somebody wrote by hand, the defaults and the values in range are allowed.
LEMMA LegalValues ==
  ASSUME NEW f \in Fields
  PROVE  /\ Values \subseteq Legal(f) /\ Defaults[f] \in Legal(f)
         /\ \A path \in Paths : Load(given[path])[f] \in Legal(f)
BY DefaultsTyped DEF Legal

LEMMA LegalKept ==
  ASSUME given' = given
  PROVE  \A f \in Fields : Legal(f)' = Legal(f)
BY DEF Legal

\* A text of allowed settings reads back as such.
LEMMA LoadLegal ==
  ASSUME NEW content, NEW f \in Fields,
         content \in Texts => content[f] \in Legal(f) \cup {Absent}
  PROVE  Load(content)[f] \in Legal(f)
<1>1. CASE content \in Texts
  <2>1. Load(content)[f] = IF content[f] = Absent THEN Defaults[f] ELSE content[f]
    BY <1>1 DEF Load
  <2> QED BY <1>1, <2>1, LegalValues
<1>2. CASE content \notin Texts
  BY <1>2, LegalValues DEF Load
<1> QED BY <1>1, <1>2

LEMMA LoadedLegal ==
  ASSUME SettingsInRange, NEW path \in Paths
  PROVE  Loaded(path) \in Configs /\ \A f \in Fields : Loaded(path)[f] \in Legal(f)
<1>1. Loaded(path) = Load(file) \/ Loaded(path) = Load(given["other"])
  BY DEF Loaded
<1>2. "other" \in Paths
  BY DEF Paths
<1> QED BY <1>1, <1>2, LoadTyped, LegalValues DEF SettingsInRange

LEMMA NoBodyTyped ==
  NoBody \in Bodies /\ NoBody \in Texts /\ \A f \in Fields : NoBody[f] = Absent
BY DEF NoBody, Bodies, Texts

LEMMA RangeInit == Init => RangeInv
<1> SUFFICES ASSUME Init PROVE RangeInv
    OBVIOUS
<1>1. saved \in Configs
  BY LoadTyped DEF Init
<1>2. cfg \in Configs /\ thresholds \in [AlertFields -> AnyValue]
      /\ retention \in [RetentionFields -> AnyValue]
  BY DefaultsTyped DEF Init, Configs, Fields
<1>3. "saved" \in Paths /\ file \in FirstFiles /\ file = given["saved"]
  BY DEF Init, Paths
<1>4. Typed
  <2>1. /\ pc \in [Threads -> {"idle", "apply", "dump", "reply"}]
        /\ body \in [Threads -> Bodies] /\ text \in [Threads -> Texts]
        /\ at \in [Threads -> Nat \ {0}]
    BY NoBodyTyped DEF Init
  <2>2. alone \in [Threads -> BOOLEAN] /\ kept \in BOOLEAN /\ running \in BOOLEAN
        /\ given \in [Paths -> FirstFiles]
    BY DEF Init
  <2> QED
    BY <1>1, <1>2, <1>3, <2>1, <2>2, FilesAssumption DEF Typed
<1>5. SettingsInRange
  <2>1. \A f \in Fields : Load(file)[f] \in Legal(f)
    BY <1>3, LegalValues
  <2> QED
    BY <2>1, LegalValues DEF Init, SettingsInRange, Fields
<1>6. ReadOut
  BY NoBodyTyped DEF Init, ReadOut
<1> QED
  BY <1>4, <1>5, <1>6 DEF RangeInv

LEMMA FinishTyped ==
  ASSUME Typed, ReadOut, NEW t \in Threads, Finish(t), given' = given
  PROVE  /\ pc' \in [Threads -> {"idle", "apply", "dump", "reply"}]
         /\ body' \in [Threads -> Bodies]
         /\ text' \in [Threads -> Texts]
         /\ at' \in [Threads -> Nat \ {0}]
         /\ ReadOut'
<1>1. /\ pc' \in [Threads -> {"idle", "apply", "dump", "reply"}]
      /\ body' \in [Threads -> Bodies] /\ text' \in [Threads -> Texts]
      /\ at' \in [Threads -> Nat \ {0}]
  BY NoBodyTyped DEF Finish, Typed
<1>2. \A u \in Threads : text'[u] = text[u] \/ text'[u] = NoBody
  BY DEF Finish, Typed
<1> QED
  BY <1>1, <1>2, NoBodyTyped, LegalKept DEF ReadOut

\* The settings in force, on disk and on their way stay what they are.
LEMMA RangeKept ==
  ASSUME SettingsInRange, UNCHANGED <<cfg, thresholds, retention, given, file>>
  PROVE  SettingsInRange'
BY LegalKept DEF SettingsInRange, Fields

LEMMA RangeNext == RangeInv /\ [Next]_vars => RangeInv'
<1> SUFFICES ASSUME RangeInv, [Next]_vars PROVE RangeInv'
    OBVIOUS
<1>0. Typed /\ SettingsInRange /\ ReadOut
  BY DEF RangeInv
<1>g. given' = given /\ \A f \in Fields : Legal(f)' = Legal(f)
  <2>1. given' = given
    BY DEF Next, Post, Start, Exit, ReadRetention, Begin, Apply, ApplyThrows, OpenFile,
           OpenFails, Dump, Write, WriteFails, Reply, vars
  <2> QED BY <2>1, LegalKept
<1>1. ASSUME NEW path \in StartPaths, Start(path) PROVE RangeInv'
  <2>1. path \in Paths
    BY FilesAssumption
  <2>2. /\ cfg' \in Configs /\ thresholds' \in [AlertFields -> AnyValue]
        /\ \A f \in Fields : cfg'[f] \in Legal(f)
        /\ \A f \in AlertFields : thresholds'[f] \in Legal(f)
    BY <1>0, <1>1, <2>1, LoadedLegal DEF Start, Configs, Fields
  <2>3. UNCHANGED <<retention, file, request, ghosts>> /\ running' = TRUE
    BY <1>1 DEF Start
  <2>4. Typed'
    BY <1>0, <1>g, <2>2, <2>3 DEF Typed, request, ghosts
  <2>5. SettingsInRange'
    BY <1>0, <1>g, <2>2, <2>3 DEF SettingsInRange, Fields
  <2>6. ReadOut'
    BY <1>0, <1>g, <2>3 DEF ReadOut, request
  <2> QED BY <2>4, <2>5, <2>6 DEF RangeInv
<1>2. CASE Exit
  <2>1. Typed'
    <3>1. /\ pc' \in [Threads -> {"idle", "apply", "dump", "reply"}]
          /\ body' \in [Threads -> Bodies] /\ text' \in [Threads -> Texts]
          /\ at' \in [Threads -> Nat \ {0}]
      BY <1>2, NoBodyTyped DEF Exit
    <3> QED
      BY <1>0, <1>2, <3>1 DEF Exit, Typed, bounds, ghosts
  <2>2. ReadOut'
    BY <1>2, NoBodyTyped DEF Exit, ReadOut
  <2>3. SettingsInRange'
    BY <1>0, <1>2, RangeKept DEF Exit
  <2> QED
    BY <2>1, <2>2, <2>3 DEF RangeInv
<1>3. ASSUME NEW f \in RetentionFields, ReadRetention(f) PROVE RangeInv'
  <2>1. UNCHANGED <<running, cfg, thresholds, file, request, bounds, ghosts>>
        /\ retention' = [retention EXCEPT ![f] = cfg[f]]
    BY <1>3 DEF ReadRetention
  <2>2. Typed'
    BY <1>0, <1>g, <2>1 DEF Typed, request, ghosts, Configs, Fields
  <2>3. \A e \in RetentionFields : retention'[e] \in Legal(e)
    BY <1>0, <2>1 DEF Typed, SettingsInRange, Fields
  <2>4. SettingsInRange'
    BY <1>0, <1>g, <2>1, <2>3 DEF SettingsInRange, Fields
  <2>5. ReadOut'
    BY <1>0, <1>g, <2>1 DEF ReadOut, request
  <2> QED BY <2>2, <2>4, <2>5 DEF RangeInv
<1>4. ASSUME NEW t \in Threads, NEW b \in Bodies, Begin(t, b) PROVE RangeInv'
  <2>1. Typed'
    BY <1>0, <1>4 DEF Begin, Typed, service, Busy
  <2>2. SettingsInRange' /\ ReadOut'
    BY <1>0, <1>4, <1>g, RangeKept DEF Begin, service, ReadOut
  <2> QED BY <2>1, <2>2 DEF RangeInv
<1>5. ASSUME NEW t \in Threads, Apply(t) PROVE RangeInv'
  <2>1. PICK f \in Fields :
          cfg' = IF body[t][f] \in Values THEN [cfg EXCEPT ![f] = body[t][f]] ELSE cfg
    <3>1. at[t] \in 1..Len(ApplyOrder)
      BY <1>0, <1>5, OrderTypes DEF Apply, Typed
    <3>2. ApplyOrder[at[t]] \in Fields
      BY <3>1, OrderTypes
    <3> QED BY <1>5, <3>2 DEF Apply
  <2>2. UNCHANGED <<running, thresholds, retention, file, pc, body, text, bounds, ghosts>>
        /\ at' = [at EXCEPT ![t] = @ + 1]
    BY <1>5 DEF Apply
  <2>3. cfg' \in Configs
    BY <1>0, <2>1 DEF Typed, Configs, AnyValue
  <2>4. Typed'
    BY <1>0, <1>g, <2>2, <2>3 DEF Typed, ghosts
  <2>5. \A e \in Fields : cfg'[e] \in Legal(e)
    BY <1>0, <2>1, LegalValues DEF Typed, SettingsInRange, Configs
  <2>6. SettingsInRange'
    BY <1>0, <1>g, <2>2, <2>5 DEF SettingsInRange, Fields
  <2>7. ReadOut'
    BY <1>0, <1>g, <2>2 DEF ReadOut
  <2> QED BY <2>4, <2>6, <2>7 DEF RangeInv
<1>6. ASSUME NEW t \in Threads, Finish(t), UNCHANGED <<service, saved, alone>>,
             file' = file, kept' \in BOOLEAN
      PROVE  RangeInv'
  BY <1>0, <1>6, <1>g, FinishTyped, RangeKept DEF RangeInv, Typed, service
<1>7. ASSUME NEW t \in Threads, ApplyThrows(t) \/ OpenFails(t) \/ WriteFails(t)
      PROVE  RangeInv'
  BY <1>0, <1>6, <1>7 DEF ApplyThrows, OpenFails, WriteFails, ghosts, Typed
<1>8. ASSUME NEW t \in Threads, OpenFile(t) PROVE RangeInv'
  <2>1. Typed'
    <3>1. pc' \in [Threads -> {"idle", "apply", "dump", "reply"}] /\ at' \in [Threads -> Nat \ {0}]
      BY <1>0, <1>8 DEF OpenFile, Typed
    <3> QED
      BY <1>0, <1>8, <3>1 DEF OpenFile, Typed, service, bounds
  <2>2. \A f \in Fields : Load(file')[f] \in Legal(f)
    BY <1>8, ValuesAssumption, LoadLegal DEF OpenFile
  <2>3. SettingsInRange' /\ ReadOut'
    BY <1>0, <1>8, <1>g, <2>2 DEF OpenFile, service, SettingsInRange, ReadOut, Fields
  <2> QED
    BY <2>1, <2>3 DEF RangeInv
<1>9. ASSUME NEW t \in Threads, Dump(t) PROVE RangeInv'
  <2>1. PICK f \in Fields : text' = [text EXCEPT ![t][f] = cfg[f]]
    <3>1. at[t] \in 1..Len(DumpOrder)
      BY <1>0, <1>9, OrderTypes DEF Dump, Typed
    <3>2. DumpOrder[at[t]] \in Fields
      BY <3>1, OrderTypes
    <3> QED BY <1>9, <3>2 DEF Dump
  <2>2. UNCHANGED <<service, file, pc, body, bounds, ghosts>> /\ at' = [at EXCEPT ![t] = @ + 1]
    BY <1>9 DEF Dump
  <2>3. text' \in [Threads -> Texts]
    BY <1>0, <2>1 DEF Typed, Configs, Texts
  <2>4. Typed'
    <3>1. at' \in [Threads -> Nat \ {0}]
      BY <1>0, <2>2 DEF Typed
    <3> QED BY <1>0, <1>g, <2>2, <2>3, <3>1 DEF Typed, service, ghosts
  <2>5. \A u \in Threads, e \in Fields : text'[u][e] \in Legal(e) \cup {Absent}
    BY <1>0, <2>1 DEF Typed, Texts, ReadOut, SettingsInRange
  <2>6. SettingsInRange' /\ ReadOut'
    BY <1>0, <1>g, <2>2, <2>5, RangeKept DEF service, ReadOut
  <2> QED
    BY <2>4, <2>6 DEF RangeInv
<1>10. ASSUME NEW t \in Threads, Write(t) PROVE RangeInv'
  <2>1. file' \in {text[t], Garbled}
        /\ UNCHANGED <<service, body, at, text, bounds, ghosts>>
        /\ pc' = [pc EXCEPT ![t] = "reply"]
    BY <1>10 DEF Write
  <2>2. Typed'
    BY <1>0, <1>g, <2>1 DEF Typed, service, ghosts
  <2>3. \A f \in Fields : Load(file')[f] \in Legal(f)
    BY <1>0, <2>1, ValuesAssumption, LoadLegal DEF ReadOut
  <2>4. SettingsInRange' /\ ReadOut'
    BY <1>0, <1>g, <2>1, <2>3 DEF service, SettingsInRange, ReadOut, Fields
  <2> QED
    BY <2>2, <2>4 DEF RangeInv
<1>11. ASSUME NEW t \in Threads, Reply(t) PROVE RangeInv'
  <2>1. saved' \in Configs /\ kept' \in BOOLEAN
    BY <1>0, <1>11 DEF Reply, Typed
  <2>2. Finish(t) /\ UNCHANGED <<service, file, alone>>
    BY <1>11 DEF Reply
  <2> QED
    BY <1>0, <1>g, <2>1, <2>2, FinishTyped, RangeKept DEF RangeInv, Typed, service
<1>12. CASE UNCHANGED vars
  <2>1. UNCHANGED <<service, file, request, ghosts>>
    BY <1>12 DEF vars
  <2>2. Typed'
    BY <1>0, <1>g, <2>1 DEF Typed, service, request, ghosts
  <2>3. SettingsInRange' /\ ReadOut'
    BY <1>0, <1>g, <2>1, RangeKept DEF service, request, ReadOut
  <2> QED BY <2>2, <2>3 DEF RangeInv
<1> QED
  BY <1>1, <1>2, <1>3, <1>4, <1>5, <1>7, <1>8, <1>9, <1>10, <1>11, <1>12 DEF Next, Post

LEMMA RangeInvariant == Spec => []RangeInv
BY RangeInit, RangeNext, PTL DEF Spec

\* For any threads, any mixture of requests, failures and restarts and any files written
\* by hand: a setting that those had in range is in range wherever it acts and wherever
\* a later start reads it (apply_int, apply_double, save_config and load_config).
THEOREM SettingsStayInRange == Spec => []SettingsInRange
<1>1. RangeInv => SettingsInRange
  BY DEF RangeInv
<1> QED
  BY <1>1, RangeInvariant, PTL

\* The types; that the file holds a whole configuration, nothing or a garbled text is
\* save_config's part of it.
THEOREM TypeCorrect == Spec => []TypeOK
<1> DEFINE Bounded == starts \in 0..MaxStarts /\ posts \in 0..MaxPosts
<1>1. Init => Bounded
  BY BoundsAssumption DEF Init
<1>2. Bounded /\ [Next]_vars => Bounded'
  <2> SUFFICES ASSUME Bounded, [Next]_vars PROVE Bounded'
    OBVIOUS
  <2>1. ASSUME NEW path \in StartPaths, Start(path) PROVE Bounded'
    BY <2>1, BoundsAssumption DEF Start
  <2>2. ASSUME NEW t \in Threads, NEW b \in Bodies, Begin(t, b) PROVE Bounded'
    BY <2>2, BoundsAssumption DEF Begin
  <2>3. CASE UNCHANGED bounds
    BY <2>3 DEF bounds
  <2>4. \/ \E path \in StartPaths : Start(path)
        \/ \E t \in Threads, b \in Bodies : Begin(t, b)
        \/ UNCHANGED bounds
    BY DEF Next, Post, Exit, ReadRetention, Apply, ApplyThrows, OpenFile, OpenFails, Dump,
           Write, WriteFails, Reply, vars
  <2> QED
    BY <2>1, <2>2, <2>3, <2>4
<1>3. RangeInv /\ Bounded => TypeOK
  BY DEF RangeInv, Typed, TypeOK
<1> QED
  BY <1>1, <1>2, <1>3, RangeInvariant, PTL DEF Spec

-----------------------------------------------------------------------------
(* A POST that runs alone.                                                 *)

\* While a POST is marked alone, no other one is under way.
NobodyBeside ==
  \A t, u \in Threads : alone[t] /\ Busy(t) /\ u # t => ~Busy(u)

\* What it has passed of its body is in force ...
Applied ==
  \A t \in Threads : alone[t] =>
    /\ pc[t] = "apply" =>
         \A i \in 1..Len(ApplyOrder) :
           i < at[t] /\ body[t][ApplyOrder[i]] \in Values
             => cfg[ApplyOrder[i]] = body[t][ApplyOrder[i]]
    /\ pc[t] \in {"dump", "reply"} =>
         \A f \in Fields : body[t][f] \in Values => cfg[f] = body[t][f]

\* ... and what it has written out is what is in force.
Dumped ==
  \A t \in Threads : alone[t] =>
    /\ pc[t] = "dump" =>
         /\ file = Emptied
         /\ \A i \in 1..Len(DumpOrder) : i < at[t] => text[t][DumpOrder[i]] = cfg[DumpOrder[i]]
    /\ pc[t] = "reply" => file = cfg

\* While the last save counts as kept, no POST has touched the file again.
Kept == kept => /\ Load(file) = saved
                /\ \A t \in Threads : pc[t] \in {"idle", "apply"}

\* Outside of a run nothing is under way, and each request starts from the first setting.
Stopped == ~running => \A t \in Threads : ~Busy(t)
Rewound == \A t \in Threads : pc[t] = "idle" => at[t] = 1

AloneInv == NobodyBeside /\ Applied /\ Dumped /\ Kept /\ Stopped /\ Rewound

LEMMA AloneInit == Init => AloneInv
BY DEF Init, AloneInv, NobodyBeside, Applied, Dumped, Kept, Stopped, Rewound, Busy

LEMMA OthersAtRest ==
  ASSUME Typed, NobodyBeside, NEW t \in Threads, Busy(t),
         NEW u \in Threads, u # t, alone[u]
  PROVE  pc[u] = "idle"
BY DEF NobodyBeside, Busy

\* A POST that ends takes nothing from the others, whatever became of the file.
LEMMA FinishAlone ==
  ASSUME Typed, AloneInv, NEW t \in Threads, Finish(t),
         UNCHANGED <<running, cfg, file, alone>>
  PROVE  NobodyBeside' /\ Applied' /\ Dumped' /\ Stopped' /\ Rewound'
<1>1. \A u \in Threads : u # t =>
         pc'[u] = pc[u] /\ body'[u] = body[u] /\ at'[u] = at[u] /\ text'[u] = text[u]
  BY DEF Finish, Typed
<1>2. pc'[t] = "idle" /\ at'[t] = 1
  BY DEF Finish, Typed
<1>3. NobodyBeside' /\ Stopped' /\ Rewound'
  BY <1>1, <1>2 DEF NobodyBeside, Stopped, Rewound, Busy, AloneInv
<1>4. Applied'
  BY <1>1, <1>2 DEF Applied, AloneInv
<1>5. Dumped'
  BY <1>1, <1>2 DEF Dumped, AloneInv
<1> QED
  BY <1>3, <1>4, <1>5

LEMMA AloneNext == RangeInv /\ RangeInv' /\ AloneInv /\ [Next]_vars => AloneInv'
<1> SUFFICES ASSUME RangeInv, RangeInv', AloneInv, [Next]_vars PROVE AloneInv'
    OBVIOUS
<1>0. Typed /\ Typed'
  BY DEF RangeInv
<1>1. ASSUME NEW path \in StartPaths, Start(path) PROVE AloneInv'
  BY <1>1 DEF Start, request, ghosts, AloneInv, NobodyBeside, Applied, Dumped, Kept, Stopped, Rewound, Busy
<1>2. CASE Exit
  <2>1. \A t \in Threads : pc'[t] = "idle"
    BY <1>2 DEF Exit
  <2> QED
    BY <1>2, <2>1
       DEF Exit, ghosts, AloneInv, NobodyBeside, Applied, Dumped, Kept, Stopped, Rewound, Busy
<1>3. ASSUME NEW f \in RetentionFields, ReadRetention(f) PROVE AloneInv'
  BY <1>3 DEF ReadRetention, request, ghosts, AloneInv, NobodyBeside, Applied, Dumped, Kept,
              Stopped, Rewound, Busy
<1>4. ASSUME NEW t \in Threads, NEW b \in Bodies, Begin(t, b) PROVE AloneInv'
  <2>1. \A u \in Threads : u # t => pc'[u] = pc[u] /\ (alone'[u] => ~Busy(u))
    BY <1>4, <1>0 DEF Begin, Typed
  <2>2. pc'[t] = "apply" /\ at'[t] = 1 /\ (alone'[t] => \A u \in Threads \ {t} : ~Busy(u))
    BY <1>4, <1>0 DEF Begin, Typed, Busy, AloneInv, Rewound
  <2>3. NobodyBeside'
    BY <2>1, <2>2 DEF NobodyBeside, Busy
  <2>4. Applied' /\ Dumped'
    BY <2>1, <2>2, OrderTypes DEF Applied, Dumped, Busy
  <2>5. Kept' /\ Stopped' /\ Rewound'
    BY <1>4, <2>1, <2>2 DEF Begin, service, AloneInv, Kept, Stopped, Rewound, Busy
  <2> QED
    BY <2>3, <2>4, <2>5 DEF AloneInv
<1>5. ASSUME NEW t \in Threads, Apply(t) PROVE AloneInv'
  <2>1. Busy(t) /\ pc' = pc /\ alone' = alone /\ body' = body
    BY <1>5 DEF Apply, ghosts, Busy
  <2>2. \A u \in Threads : u # t /\ alone[u] => pc[u] = "idle"
    BY <2>1, <1>0, OthersAtRest DEF AloneInv
  <2>3. NobodyBeside' /\ Kept' /\ Stopped' /\ Rewound'
    BY <1>5, <1>0 DEF Apply, ghosts, Typed, AloneInv, NobodyBeside, Kept, Stopped, Rewound, Busy
  <2>4. Dumped'
    BY <1>5, <2>1, <2>2 DEF Apply, Dumped
  <2>5. Applied'
    <3>1. ASSUME alone[t], NEW i \in 1..Len(ApplyOrder), i < at'[t],
                 body[t][ApplyOrder[i]] \in Values
          PROVE  cfg'[ApplyOrder[i]] = body[t][ApplyOrder[i]]
      <4>1. at'[t] = at[t] + 1 /\ at[t] \in 1..Len(ApplyOrder)
        BY <1>5, <1>0, OrderTypes DEF Apply, Typed
      <4>2. cfg \in [Fields -> AnyValue] /\ ApplyOrder[i] \in Fields /\ ApplyOrder[at[t]] \in Fields
        BY <1>0, <4>1, OrderTypes DEF Typed, Configs
      <4>3. CASE ApplyOrder[i] = ApplyOrder[at[t]]
        BY <1>5, <3>1, <4>2, <4>3 DEF Apply
      <4>4. CASE ApplyOrder[i] # ApplyOrder[at[t]]
        <5>1. i < at[t]
          BY <3>1, <4>1, <4>4, <1>0 DEF Typed
        <5>2. cfg[ApplyOrder[i]] = body[t][ApplyOrder[i]]
          BY <1>5, <3>1, <5>1 DEF Apply, AloneInv, Applied
        <5> QED
          BY <1>5, <4>2, <4>4, <5>2 DEF Apply
      <4> QED
        BY <4>3, <4>4
    <3> QED
      BY <1>5, <2>1, <2>2, <3>1 DEF Apply, Applied
  <2> QED
    BY <2>3, <2>4, <2>5 DEF AloneInv
<1>6. ASSUME NEW t \in Threads, ApplyThrows(t) \/ OpenFails(t) \/ WriteFails(t)
      PROVE  AloneInv'
  <2>1. Finish(t) /\ UNCHANGED <<running, cfg, file, alone, saved>>
    BY <1>6 DEF ApplyThrows, OpenFails, WriteFails, service, ghosts
  <2>2. Kept'
    BY <1>6, <2>1, <1>0
       DEF ApplyThrows, OpenFails, WriteFails, ghosts, Finish, Typed, AloneInv, Kept
  <2> QED
    BY <2>1, <2>2, <1>0, FinishAlone DEF AloneInv
<1>7. ASSUME NEW t \in Threads, OpenFile(t) PROVE AloneInv'
  <2>1. /\ Busy(t) /\ pc'[t] = "dump" /\ at'[t] = 1 /\ file' = Emptied
        /\ cfg' = cfg /\ alone' = alone /\ body' = body
        /\ \A u \in Threads : u # t => pc'[u] = pc[u] /\ at'[u] = at[u]
    BY <1>7, <1>0 DEF OpenFile, service, Typed, Busy
  <2>2. \A u \in Threads : u # t /\ alone[u] => pc[u] = "idle"
    BY <2>1, <1>0, OthersAtRest DEF AloneInv
  <2>3. NobodyBeside' /\ Kept' /\ Stopped' /\ Rewound'
    BY <1>7, <2>1, <2>2 DEF OpenFile, service, AloneInv, NobodyBeside, Kept, Stopped, Rewound, Busy
  <2>4. Applied'
    <3>1. ASSUME alone[t], NEW f \in Fields, body[t][f] \in Values
          PROVE  cfg[f] = body[t][f]
      <4>1. PICK i \in 1..Len(ApplyOrder) : ApplyOrder[i] = f
        BY OrdersAssumption
      <4>2. i < at[t] /\ pc[t] = "apply"
        BY <1>7, <1>0, <4>1, OrderTypes DEF OpenFile, Typed
      <4> QED
        BY <3>1, <4>1, <4>2 DEF AloneInv, Applied
    <3> QED
      BY <2>1, <2>2, <3>1 DEF Applied
  <2>5. Dumped'
    BY <2>1, <2>2, OrderTypes DEF Dumped
  <2> QED
    BY <2>3, <2>4, <2>5 DEF AloneInv
<1>8. ASSUME NEW t \in Threads, Dump(t) PROVE AloneInv'
  <2>1. /\ Busy(t) /\ pc' = pc /\ alone' = alone /\ body' = body /\ cfg' = cfg /\ file' = file
        /\ at'[t] = at[t] + 1 /\ at[t] \in 1..Len(DumpOrder)
    BY <1>8, <1>0, OrderTypes DEF Dump, service, ghosts, Typed, Busy
  <2>2. \A u \in Threads : u # t /\ alone[u] => pc[u] = "idle"
    BY <2>1, <1>0, OthersAtRest DEF AloneInv
  <2>3. NobodyBeside' /\ Kept' /\ Stopped' /\ Rewound'
    BY <1>8, <1>0
       DEF Dump, service, ghosts, Typed, AloneInv, NobodyBeside, Kept, Stopped, Rewound, Busy
  <2>4. Applied'
    BY <1>8, <2>1, <2>2 DEF Dump, AloneInv, Applied
  <2>5. Dumped'
    <3>1. ASSUME alone[t], NEW i \in 1..Len(DumpOrder), i < at'[t]
          PROVE  text'[t][DumpOrder[i]] = cfg[DumpOrder[i]]
      <4>1. /\ text \in [Threads -> Texts] /\ text[t] \in [Fields -> AnyValue \cup {Absent}]
            /\ DumpOrder[i] \in Fields /\ DumpOrder[at[t]] \in Fields
            /\ text'[t] = [text[t] EXCEPT ![DumpOrder[at[t]]] = cfg[DumpOrder[at[t]]]]
        BY <1>8, <1>0, <2>1, OrderTypes DEF Dump, Typed, Texts
      <4>2. CASE DumpOrder[i] = DumpOrder[at[t]]
        BY <4>1, <4>2
      <4>3. CASE DumpOrder[i] # DumpOrder[at[t]]
        <5>1. i < at[t]
          BY <2>1, <3>1, <4>3
        <5>2. text[t][DumpOrder[i]] = cfg[DumpOrder[i]]
          BY <1>8, <3>1, <5>1 DEF Dump, AloneInv, Dumped
        <5> QED
          BY <4>1, <4>3, <5>2
      <4> QED
        BY <4>2, <4>3
    <3> QED
      BY <1>8, <2>1, <2>2, <3>1 DEF Dump, AloneInv, Dumped
  <2> QED
    BY <2>3, <2>4, <2>5 DEF AloneInv
<1>9. ASSUME NEW t \in Threads, Write(t) PROVE AloneInv'
  <2>1. /\ Busy(t) /\ pc[t] = "dump" /\ pc'[t] = "reply"
        /\ alone' = alone /\ body' = body /\ cfg' = cfg
        /\ \A u \in Threads : u # t => pc'[u] = pc[u]
    BY <1>9, <1>0 DEF Write, service, ghosts, Typed, Busy
  <2>2. \A u \in Threads : u # t /\ alone[u] => pc[u] = "idle"
    BY <2>1, <1>0, OthersAtRest DEF AloneInv
  <2>3. NobodyBeside' /\ Kept' /\ Stopped' /\ Rewound'
    BY <1>9, <2>1, <2>2
       DEF Write, service, ghosts, AloneInv, NobodyBeside, Kept, Stopped, Rewound, Busy
  <2>4. Applied'
    BY <2>1, <2>2 DEF AloneInv, Applied
  <2>5. ASSUME alone[t] PROVE file' = cfg
    <3>1. \A f \in Fields : text[t][f] = cfg[f]
      <4>1. ASSUME NEW f \in Fields PROVE text[t][f] = cfg[f]
        <5>1. PICK i \in 1..Len(DumpOrder) : DumpOrder[i] = f
          BY OrdersAssumption
        <5>2. i < at[t]
          BY <1>9, <1>0, <5>1, OrderTypes DEF Write, Typed
        <5> QED
          BY <2>1, <2>5, <5>1, <5>2 DEF AloneInv, Dumped
      <4> QED
        BY <4>1
    <3>2. text[t] = cfg
      BY <3>1, <1>0 DEF Typed, Configs, Texts
    <3>3. file = Emptied
      BY <2>1, <2>5 DEF AloneInv, Dumped
    <3> QED
      BY <1>9, <3>2, <3>3 DEF Write
  <2>6. Dumped'
    BY <2>1, <2>2, <2>5 DEF Dumped
  <2> QED
    BY <2>3, <2>4, <2>6 DEF AloneInv
<1>10. ASSUME NEW t \in Threads, Reply(t) PROVE AloneInv'
  <2>1. Busy(t) /\ Finish(t) /\ UNCHANGED <<running, cfg, file, alone>>
    BY <1>10 DEF Reply, service, Busy
  <2>2. \A u \in Threads : pc'[u] = IF u = t THEN "idle" ELSE pc[u]
    BY <2>1, <1>0 DEF Finish, Typed
  <2>3. CASE alone[t]
    <3>1. file = cfg /\ saved' = cfg
      BY <1>10, <2>3 DEF Reply, AloneInv, Dumped
    <3>2. Load(file') = saved'
      <4>1. cfg \in Texts /\ \A f \in Fields : cfg[f] # Absent
        BY <1>0, ValuesAssumption DEF Typed, Configs, Texts, AnyValue
      <4>2. Load(cfg) = cfg
        BY <1>0, <4>1 DEF Load, Typed, Configs
      <4> QED BY <3>1, <2>1, <4>2
    <3>3. \A u \in Threads : u # t => pc[u] = "idle"
      BY <2>1, <2>3 DEF AloneInv, NobodyBeside, Busy
    <3> QED
      BY <2>1, <2>2, <3>2, <3>3, <1>0, FinishAlone DEF AloneInv, Kept
  <2>4. CASE ~alone[t]
    <3>1. Kept'
      BY <1>10, <2>1, <2>2, <2>4 DEF Reply, AloneInv, Kept
    <3> QED
      BY <2>1, <3>1, <1>0, FinishAlone DEF AloneInv
  <2> QED
    BY <2>3, <2>4
<1>11. CASE UNCHANGED vars
  BY <1>11 DEF vars, service, request, ghosts, AloneInv, NobodyBeside, Applied, Dumped, Kept,
               Stopped, Rewound, Busy
<1> QED
  BY <1>1, <1>2, <1>3, <1>4, <1>5, <1>6, <1>7, <1>8, <1>9, <1>10, <1>11 DEF Next, Post

LEMMA AloneInvariant == Spec => [](RangeInv /\ AloneInv)
<1>1. RangeInv /\ AloneInv /\ [Next]_vars => AloneInv'
  BY RangeNext, AloneNext
<1> QED
  BY <1>1, AloneInit, RangeInit, RangeNext, PTL DEF Spec

\* The answer of a POST that ran alone: its values in range are in force, and the
\* file says what is in force (the handler and save_config).
THEOREM AnswersAreSaved == Spec => []AnswerTellsTheFile
<1>1. RangeInv /\ AloneInv => AnswerTellsTheFile
  BY DEF AloneInv, Applied, Dumped, AnswerTellsTheFile
<1> QED
  BY <1>1, AloneInvariant, PTL

\* What a start finds in the file that POST writes is the configuration of the last
\* undisturbed save, until the next one is begun (load_config after save_config).
THEOREM SavesAreKept == Spec => []FileKeepsTheSave
<1>1. AloneInv => FileKeepsTheSave
  BY DEF AloneInv, Kept, FileKeepsTheSave
<1> QED
  BY <1>1, AloneInvariant, PTL

-----------------------------------------------------------------------------
(* Dashboard: the poll loops of the pages and the store they fill.         *)

D == INSTANCE Dashboard

FetchRecord == [by : D!Loop, answer : {"none", "ok", "500", "error"}, snap : Nat]
LoopRecord == [active : BOOLEAN, at : {"awaiting", "sleeping", "ended"}, shown : Nat]

LoopType ==
  /\ mounts \in Nat /\ mounts <= MaxMounts /\ page \in D!Page
  /\ loop \in [D!Loop -> LoopRecord] /\ fetches \subseteq FetchRecord /\ store \in Nat

\* The loop of the page that is open is the last one, and the ones to come have not begun.
LastLoop ==
  \A i \in D!Loop :
    /\ loop[i].active <=> (i = mounts + 1 /\ page \in D!Polling)
    /\ i > mounts + 1 => loop[i].at = "ended"

\* A loop awaits the one answer that it has asked for.
Awaiting ==
  /\ \A f, g \in fetches : f.by = g.by => f = g
  /\ \A i \in D!Loop : loop[i].at = "awaiting" <=> \E f \in fetches : f.by = i

LoopInv == LoopType /\ LastLoop /\ Awaiting

LEMMA LoopInit == ASSUME MaxMounts \in Nat PROVE D!Init => LoopInv
<1> SUFFICES ASSUME D!Init PROVE LoopInv
  OBVIOUS
<1> DEFINE first == D!Fetch(1)
<1>1. /\ page = "dashboard" /\ mounts = 0 /\ fetches = {first} /\ store = 0
      /\ loop = [i \in D!Loop |-> IF i = 1 THEN [active |-> TRUE, at |-> "awaiting", shown |-> 0]
                                          ELSE [active |-> FALSE, at |-> "ended", shown |-> 0]]
  BY DEF D!Init
<1>2. 1 \in D!Loop /\ \A i \in D!Loop : i \in Nat
  BY DEF D!Loop
<1>3. first \in FetchRecord /\ first.by = 1
  BY <1>2 DEF FetchRecord, D!Fetch
<1> HIDE DEF first
<1>4. LoopType
  BY <1>1, <1>3 DEF LoopType, LoopRecord, D!Page, D!Polling
<1>5. LastLoop
  BY <1>1, <1>2 DEF LastLoop, D!Polling
<1>6. Awaiting
  BY <1>1, <1>2, <1>3 DEF Awaiting
<1> QED BY <1>4, <1>5, <1>6 DEF LoopInv

\* A step that starts no fetch and delivers none.
LEMMA LoopKept ==
  ASSUME LoopInv, UNCHANGED <<mounts, page, loop, store>>, NEW f \in fetches,
         NEW g \in FetchRecord, fetches' = (fetches \ {f}) \cup {g}, g.by = f.by
  PROVE  LoopInv'
<1>1. LoopType'
  BY DEF LoopInv, LoopType
<1>2. LastLoop'
  BY DEF LoopInv, LastLoop
<1>3. \A e \in fetches' : e = g \/ (e \in fetches /\ e.by # g.by)
  BY DEF LoopInv, Awaiting
<1>4. \A i \in D!Loop : (\E e \in fetches' : e.by = i) <=> (\E e \in fetches : e.by = i)
  OBVIOUS
<1>5. Awaiting'
  BY <1>3, <1>4 DEF LoopInv, Awaiting
<1> QED BY <1>1, <1>2, <1>5 DEF LoopInv

\* The fetches with one more, of a loop that has none.
LEMMA SentOnce ==
  ASSUME LoopInv, NEW i \in D!Loop, \A f \in fetches : f.by # i,
         fetches' = fetches \cup {D!Fetch(i)}
  PROVE  /\ fetches' \subseteq FetchRecord
         /\ \A f, g \in fetches' : f.by = g.by => f = g
         /\ \A j \in D!Loop : (\E f \in fetches' : f.by = j)
                                <=> (j = i \/ \E f \in fetches : f.by = j)
<1> DEFINE new == D!Fetch(i)
<1>1. new \in FetchRecord /\ new.by = i
  BY DEF FetchRecord, D!Fetch
<1> HIDE DEF new
<1>2. fetches' = fetches \cup {new}
  BY DEF new
<1> QED BY <1>1, <1>2 DEF LoopInv, LoopType, Awaiting

LEMMA LoopResponds ==
  ASSUME LoopInv, NEW f \in fetches, D!Respond(f), registry \in Nat
  PROVE  LoopInv'
<1>1. PICK answer \in {"ok", "500", "error"}, snap \in Nat :
        fetches' = (fetches \ {f}) \cup {[f EXCEPT !.answer = answer, !.snap = snap]}
  <2>1. (CASE server = "up" -> "ok" [] server = "failing" -> "500" [] OTHER -> "error")
          \in {"ok", "500", "error"}
    OBVIOUS
  <2>2. (IF server = "up" THEN registry ELSE 0) \in Nat
    OBVIOUS
  <2> QED BY <2>1, <2>2 DEF D!Respond
<1> DEFINE g == [f EXCEPT !.answer = answer, !.snap = snap]
<1>2. g \in FetchRecord /\ g.by = f.by
  BY DEF LoopInv, LoopType, FetchRecord
<1>3. UNCHANGED <<mounts, page, loop, store>>
  BY DEF D!Respond
<1> HIDE DEF g
<1> QED BY <1>1, <1>2, <1>3, LoopKept DEF g

LEMMA LoopDelivers ==
  ASSUME LoopInv, NEW f \in fetches, D!Deliver(f)
  PROVE  /\ LoopInv'
         /\ \A i \in D!Loop : loop'[i].shown = IF i = f.by THEN store' ELSE loop[i].shown
         /\ \A e \in fetches' : e \in fetches /\ e.by # f.by
<1>1. /\ fetches' = fetches \ {f} /\ UNCHANGED <<mounts, page>>
      /\ store' = IF f.answer = "ok" THEN D!Merged(f.snap) ELSE store
      /\ loop' = [loop EXCEPT ![f.by].at = "sleeping", ![f.by].shown = store']
  BY DEF D!Deliver
<1>2. f.by \in D!Loop /\ f.snap \in Nat
  BY DEF LoopInv, LoopType, FetchRecord
<1>3. /\ loop[f.by].at = "awaiting"
      /\ \A e \in fetches' : e \in fetches /\ e.by # f.by
  BY <1>1, <1>2 DEF LoopInv, Awaiting
<1>4. store' \in Nat
  BY <1>1, <1>2 DEF D!Merged, LoopInv, LoopType
<1>5. /\ loop' \in [D!Loop -> LoopRecord]
      /\ \A i \in D!Loop : /\ loop'[i].active = loop[i].active
                           /\ loop'[i].at = IF i = f.by THEN "sleeping" ELSE loop[i].at
                           /\ loop'[i].shown = IF i = f.by THEN store' ELSE loop[i].shown
  BY <1>1, <1>2, <1>4 DEF LoopInv, LoopType, LoopRecord
<1>6. LoopType'
  BY <1>1, <1>4, <1>5 DEF LoopInv, LoopType
<1>7. LastLoop'
  BY <1>1, <1>3, <1>5 DEF LoopInv, LastLoop
<1>8. \A i \in D!Loop : (\E e \in fetches' : e.by = i)
                          <=> (i # f.by /\ \E e \in fetches : e.by = i)
  BY <1>1, <1>3
<1>9. Awaiting'
  BY <1>3, <1>5, <1>8 DEF LoopInv, Awaiting
<1> QED BY <1>3, <1>5, <1>6, <1>7, <1>9 DEF LoopInv

\* A fetch is sent, by the loop of the page that is open.
Sends(i) ==
  /\ fetches' = fetches \cup {D!Fetch(i)} /\ \A f \in fetches : f.by # i
  /\ i = mounts' + 1 /\ page' \in D!Polling
  /\ loop'[i].shown = store

LEMMA LoopWakes ==
  ASSUME LoopInv, NEW i \in D!Loop, D!Wake(i)
  PROVE  /\ LoopInv'
         /\ \A j \in D!Loop : j # i => loop'[j] = loop[j]
         /\ Sends(i) \/ (fetches' = fetches /\ loop'[i].shown = 0)
         /\ \A f \in fetches : f.by # i
<1>1. /\ loop[i].at = "sleeping" /\ UNCHANGED <<mounts, page, store>>
      /\ \/ /\ loop[i].active /\ fetches' = fetches \cup {D!Fetch(i)}
            /\ loop' = [loop EXCEPT ![i].at = "awaiting", ![i].shown = store]
         \/ /\ ~ loop[i].active /\ fetches' = fetches
            /\ loop' = [loop EXCEPT ![i].at = "ended", ![i].shown = 0]
  BY DEF D!Wake
<1>2. \A f \in fetches : f.by # i
  BY <1>1 DEF LoopInv, Awaiting
<1>3. \A j \in D!Loop : loop'[j].active = loop[j].active /\ (j # i => loop'[j] = loop[j])
  BY <1>1 DEF LoopInv, LoopType, LoopRecord
<1>4. loop' \in [D!Loop -> LoopRecord] /\ store' \in Nat
  BY <1>1 DEF LoopInv, LoopType, LoopRecord
<1>5. ~ (i > mounts + 1)
  BY <1>1 DEF LoopInv, LastLoop
<1>6. LastLoop'
  BY <1>1, <1>3, <1>5 DEF LoopInv, LastLoop
<1>7. CASE loop[i].active
  <2>1. /\ fetches' = fetches \cup {D!Fetch(i)}
        /\ loop'[i].at = "awaiting" /\ loop'[i].shown = store
    BY <1>1, <1>7 DEF LoopInv, LoopType, LoopRecord
  <2>2. /\ fetches' \subseteq FetchRecord /\ \A f, g \in fetches' : f.by = g.by => f = g
        /\ \A j \in D!Loop : (\E f \in fetches' : f.by = j)
                               <=> (j = i \/ \E f \in fetches : f.by = j)
    BY <1>2, <2>1, SentOnce
  <2>3. LoopType'
    BY <1>1, <1>4, <2>2 DEF LoopInv, LoopType
  <2>4. Awaiting'
    BY <1>3, <2>1, <2>2 DEF LoopInv, Awaiting
  <2>5. i = mounts' + 1 /\ page' \in D!Polling
    BY <1>1, <1>7 DEF LoopInv, LastLoop
  <2> QED BY <1>2, <1>3, <1>6, <2>1, <2>3, <2>4, <2>5 DEF LoopInv, Sends
<1>8. CASE ~ loop[i].active
  <2>1. fetches' = fetches /\ loop'[i].at = "ended" /\ loop'[i].shown = 0
    BY <1>1, <1>8 DEF LoopInv, LoopType, LoopRecord
  <2>2. LoopType'
    BY <1>1, <1>4, <2>1 DEF LoopInv, LoopType
  <2>3. Awaiting'
    BY <1>1, <1>3, <2>1 DEF LoopInv, Awaiting
  <2> QED BY <1>2, <1>3, <1>6, <2>1, <2>2, <2>3 DEF LoopInv
<1> QED BY <1>7, <1>8

LEMMA LoopNavigates ==
  ASSUME MaxMounts \in Nat, LoopInv, NEW p \in D!Page, D!Navigate(p)
  PROVE  /\ LoopInv' /\ mounts + 2 \in D!Loop
         /\ \A j \in D!Loop : j # mounts + 2 => loop'[j].shown = loop[j].shown
         /\ \/ Sends(mounts + 2)
            \/ fetches' = fetches /\ loop'[mounts + 2].shown = loop[mounts + 2].shown
         /\ \A f \in fetches : f.by # mounts + 2
<1> DEFINE i == mounts + 2
           left == [j \in D!Loop |-> [loop[j] EXCEPT !.active = FALSE]]
           first == [active |-> TRUE, at |-> "awaiting", shown |-> store]
<1>1. /\ page' = p /\ mounts' = mounts + 1 /\ mounts < MaxMounts /\ store' = store
      /\ IF p \in D!Polling
         THEN /\ loop' = [left EXCEPT ![i] = first]
              /\ fetches' = fetches \cup {D!Fetch(i)}
         ELSE loop' = left /\ fetches' = fetches
  BY DEF D!Navigate
<1>2. mounts \in Nat /\ i \in D!Loop /\ loop[i].at = "ended" /\ \A j \in D!Loop : j \in Nat
  BY <1>1 DEF LoopInv, LoopType, LastLoop, D!Loop
<1>3. /\ left \in [D!Loop -> LoopRecord] /\ store \in Nat
      /\ \A j \in D!Loop : /\ left[j].active = FALSE /\ left[j].at = loop[j].at
                           /\ left[j].shown = loop[j].shown
  BY DEF LoopInv, LoopType, LoopRecord
<1>4. \A f \in fetches : f.by # i
  BY <1>2 DEF LoopInv, Awaiting
<1>5. first \in LoopRecord /\ first.active /\ first.at = "awaiting" /\ first.shown = store
  BY <1>3 DEF LoopRecord
<1>6. i = mounts' + 1
  BY <1>1, <1>2
<1> HIDE DEF i, left, first
<1>7. mounts' \in Nat /\ mounts' <= MaxMounts /\ page' \in D!Page
  BY <1>1, <1>2
<1>8. \A j \in D!Loop : j > mounts' + 1 => j # i /\ loop[j].at = "ended"
  BY <1>1, <1>2 DEF i, LoopInv, LastLoop
<1>9. CASE p \in D!Polling
  <2>1. fetches' = fetches \cup {D!Fetch(i)} /\ loop' = [left EXCEPT ![i] = first]
    BY <1>1, <1>9
  <2>2. /\ fetches' \subseteq FetchRecord /\ \A f, g \in fetches' : f.by = g.by => f = g
        /\ \A j \in D!Loop : (\E f \in fetches' : f.by = j)
                               <=> (j = i \/ \E f \in fetches : f.by = j)
    BY <1>2, <1>4, <2>1, SentOnce
  <2>3. loop' \in [D!Loop -> LoopRecord] /\ \A j \in D!Loop : loop'[j] = IF j = i THEN first ELSE left[j]
    BY <1>2, <1>3, <1>5, <2>1
  <2>4. \A j \in D!Loop : /\ loop'[j].active = (j = i)
                          /\ loop'[j].at = IF j = i THEN "awaiting" ELSE loop[j].at
                          /\ loop'[j].shown = IF j = i THEN store ELSE loop[j].shown
    BY <1>3, <1>5, <2>3
  <2>5. LoopType'
    BY <1>1, <1>3, <1>7, <2>2, <2>3 DEF LoopType
  <2>6. LastLoop'
    BY <1>1, <1>6, <1>8, <1>9, <2>4 DEF LastLoop
  <2>7. Awaiting'
    BY <2>2, <2>4 DEF LoopInv, Awaiting
  <2>8. Sends(i)
    BY <1>1, <1>2, <1>4, <1>6, <1>9, <2>1, <2>4 DEF Sends
  <2> QED BY <1>2, <1>4, <2>4, <2>5, <2>6, <2>7, <2>8 DEF LoopInv, i
<1>10. CASE p \notin D!Polling
  <2>1. loop' = left /\ fetches' = fetches
    BY <1>1, <1>10
  <2>2. LoopType'
    BY <1>1, <1>3, <1>7, <2>1 DEF LoopInv, LoopType
  <2>3. LastLoop'
    BY <1>1, <1>3, <1>8, <1>10, <2>1 DEF LastLoop
  <2>4. Awaiting'
    BY <1>3, <2>1 DEF LoopInv, Awaiting
  <2> QED BY <1>2, <1>3, <1>4, <2>1, <2>2, <2>3, <2>4 DEF LoopInv, i
<1> QED BY <1>9, <1>10

\* The samples that are shown, were shown or are on their way are of seconds that have
\* passed; after a start the registry is empty until there is a newer one.
Seconds ==
  /\ second \in Nat /\ registry \in Nat /\ store \in Nat
  /\ registry <= second /\ store <= second /\ (registry = 0 \/ registry >= store)
  /\ \A f \in fetches : f.snap <= second /\ (registry = 0 \/ registry >= f.snap)
  /\ \A i \in D!Loop : loop[i].shown <= second /\ (registry = 0 \/ registry >= loop[i].shown)

\* An answer that holds the metric has it as its loop has seen it, or newer.
InTurn ==
  \A f \in fetches : f.snap # 0 => f.answer = "ok" /\ f.snap >= loop[f.by].shown

LEMMA SecondsInit == D!Init => Seconds /\ InTurn
<1> SUFFICES ASSUME D!Init PROVE Seconds /\ InTurn
  OBVIOUS
<1>1. /\ second = 1 /\ store = 0 /\ registry \in {0, 1} /\ fetches = {D!Fetch(1)}
      /\ \A i \in D!Loop : loop[i].shown = 0
  BY DEF D!Init
<1>2. D!Fetch(1).snap = 0
  BY DEF D!Fetch
<1> QED BY <1>1, <1>2 DEF Seconds, InTurn

\* Loop i begins, sends or ends; it has no fetch in flight.
LEMMA SecondsOfLoop ==
  ASSUME LoopInv, Seconds, InTurn, NEW i \in D!Loop,
         UNCHANGED <<second, registry, store>>, \A f \in fetches : f.by # i,
         \A j \in D!Loop : j # i => loop'[j].shown = loop[j].shown,
         loop'[i].shown \in {0, store, loop[i].shown},
         fetches' = fetches \cup {D!Fetch(i)} \/ fetches' = fetches
  PROVE  Seconds' /\ InTurn'
<1>1. D!Fetch(i).snap = 0
  BY DEF D!Fetch
<1>2. \A f \in fetches : f.by \in D!Loop /\ loop'[f.by].shown = loop[f.by].shown
  BY DEF LoopInv, LoopType, FetchRecord
<1>3. \A j \in D!Loop : loop'[j].shown <= second /\ (registry = 0 \/ registry >= loop'[j].shown)
  BY DEF Seconds
<1>4. \A f \in fetches' : f \in fetches \/ f = D!Fetch(i)
  OBVIOUS
<1>5. Seconds'
  BY <1>1, <1>3, <1>4 DEF Seconds
<1>6. InTurn'
  BY <1>1, <1>2, <1>4 DEF InTurn
<1> QED BY <1>5, <1>6

LEMMA SecondsResponds ==
  ASSUME LoopInv, Seconds, InTurn, NEW f \in fetches, D!Respond(f)
  PROVE  Seconds' /\ InTurn'
<1>1. PICK answer, snap :
        /\ fetches' = (fetches \ {f}) \cup {[f EXCEPT !.answer = answer, !.snap = snap]}
        /\ snap = 0 \/ (snap = registry /\ answer = "ok")
  <2>1. server = "up" => (CASE server = "up" -> "ok" [] server = "failing" -> "500"
                            [] OTHER -> "error") = "ok"
    OBVIOUS
  <2> QED BY <2>1 DEF D!Respond
<1>2. UNCHANGED <<second, registry, store, loop>>
  BY DEF D!Respond, D!env
<1> DEFINE g == [f EXCEPT !.answer = answer, !.snap = snap]
<1>3. g.snap = snap /\ g.answer = answer /\ g.by = f.by /\ f.by \in D!Loop
  BY DEF LoopInv, LoopType, FetchRecord
<1> HIDE DEF g
<1>4. \A e \in fetches' : e \in fetches \/ e = g
  BY <1>1 DEF g
<1>5. /\ snap \in Nat /\ snap <= second /\ (registry = 0 \/ registry >= snap)
      /\ snap # 0 => answer = "ok" /\ snap >= loop[f.by].shown
  BY <1>1, <1>3 DEF Seconds
<1>6. Seconds'
  BY <1>2, <1>3, <1>4, <1>5 DEF Seconds
<1>7. InTurn'
  BY <1>2, <1>3, <1>4, <1>5 DEF InTurn
<1> QED BY <1>6, <1>7

LEMMA SecondsDelivers ==
  ASSUME LoopInv, Seconds, InTurn, NEW f \in fetches, D!Deliver(f)
  PROVE  /\ Seconds' /\ InTurn'
         /\ f.snap > 0 => store' >= loop[f.by].shown
<1>1. /\ UNCHANGED <<second, registry>>
      /\ store' = IF f.answer = "ok" THEN D!Merged(f.snap) ELSE store
  BY DEF D!Deliver, D!env
<1>2. f.snap \in Nat /\ \A e \in fetches : e.by \in D!Loop
  BY DEF LoopInv, LoopType, FetchRecord
<1>3. /\ \A i \in D!Loop : loop'[i].shown = IF i = f.by THEN store' ELSE loop[i].shown
      /\ \A e \in fetches' : e \in fetches /\ e.by # f.by
  BY LoopDelivers
<1>4. store' = store \/ store' = f.snap
  BY <1>1 DEF D!Merged
<1>5. Seconds'
  BY <1>1, <1>2, <1>3, <1>4 DEF Seconds
<1>6. InTurn'
  BY <1>2, <1>3 DEF InTurn
<1>7. f.snap > 0 => store' >= loop[f.by].shown
  BY <1>1, <1>2 DEF InTurn, D!Merged
<1> QED BY <1>5, <1>6, <1>7

\* What the two properties say of a step.
Polled ==
  \A f \in fetches' \ fetches :
    f.answer = "none" => /\ page' \in D!Polling
                         /\ \A i \in D!Loop : loop'[i].active <=> i = f.by
                         /\ \A g \in fetches : g.by # f.by
Shown == \A f \in fetches \ fetches' : f.snap > 0 => store' >= loop[f.by].shown

LEMMA SendsPolls ==
  ASSUME LoopInv', NEW i \in D!Loop, Sends(i)
  PROVE  Polled
<1>1. D!Fetch(i).by = i
  BY DEF D!Fetch
<1>2. \A f \in fetches' \ fetches : f = D!Fetch(i)
  BY DEF Sends
<1>3. \A j \in D!Loop : loop'[j].active <=> j = i
  BY DEF LoopInv, LastLoop, Sends
<1> QED BY <1>1, <1>2, <1>3 DEF Polled, Sends

LEMMA DashboardStep ==
  ASSUME MaxMounts \in Nat, LoopInv, Seconds, InTurn, [D!Next]_D!vars
  PROVE  LoopInv' /\ Seconds' /\ InTurn' /\ Polled /\ Shown
<1>0. fetches' = fetches => Polled /\ Shown
  BY DEF Polled, Shown
<1>1. ASSUME UNCHANGED <<mounts, page, loop, fetches, store, second, registry>>
      PROVE  LoopInv' /\ Seconds' /\ InTurn' /\ Polled /\ Shown
  BY <1>0, <1>1 DEF LoopInv, LoopType, LastLoop, Awaiting, Seconds, InTurn
<1>2. ASSUME UNCHANGED <<mounts, page, loop, fetches, store>>
      PROVE  LoopInv' /\ InTurn' /\ Polled /\ Shown
  BY <1>0, <1>2 DEF LoopInv, LoopType, LastLoop, Awaiting, InTurn
<1>3. CASE D!Sample
  <2>1. UNCHANGED <<mounts, page, loop, fetches, store>>
    BY <1>3 DEF D!Sample, D!live
  <2>2. second' = second + 1 /\ registry' \in {registry, second'}
    BY <1>3 DEF D!Sample
  <2>3. /\ \A f \in fetches : f.snap \in Nat
        /\ \A i \in D!Loop : loop[i].shown \in Nat
    BY DEF LoopInv, LoopType, LoopRecord, FetchRecord
  <2>4. Seconds'
    BY <2>1, <2>2, <2>3 DEF Seconds
  <2> QED BY <1>2, <2>1, <2>4
<1>4. CASE D!Change
  <2>1. UNCHANGED <<mounts, page, loop, fetches, store, second>>
    BY <1>4 DEF D!Change, D!live
  <2>2. registry' = 0 \/ registry' = registry
    BY <1>4 DEF D!Change
  <2>3. Seconds'
    BY <2>1, <2>2 DEF Seconds
  <2> QED BY <1>2, <2>1, <2>3
<1>5. ASSUME NEW i \in D!Loop, D!LiveStep(i)
      PROVE  LoopInv' /\ Seconds' /\ InTurn' /\ Polled /\ Shown
  <2>1. PICK f \in fetches : D!Respond(f) \/ D!Deliver(f)
    BY <1>5 DEF D!LiveStep
  <2>2. CASE D!Respond(f)
    <3>1. LoopInv' /\ Seconds' /\ InTurn'
      BY <2>2, LoopResponds, SecondsResponds DEF Seconds
    <3>2. PICK answer \in {"ok", "500", "error"}, snap \in {registry, 0} :
            fetches' = (fetches \ {f}) \cup {[f EXCEPT !.answer = answer, !.snap = snap]}
      <4>1. (CASE server = "up" -> "ok" [] server = "failing" -> "500" [] OTHER -> "error")
              \in {"ok", "500", "error"}
        OBVIOUS
      <4> QED BY <2>2, <4>1 DEF D!Respond
    <3>3. [f EXCEPT !.answer = answer, !.snap = snap].answer # "none"
      BY DEF LoopInv, LoopType, FetchRecord
    <3>4. f.answer = "none" /\ f.snap \in Nat
      BY <2>2 DEF D!Respond, LoopInv, LoopType, FetchRecord
    <3>5. Polled
      BY <3>2, <3>3 DEF Polled
    <3>6. Shown
      BY <3>2, <3>4 DEF Shown, InTurn
    <3> QED BY <3>1, <3>5, <3>6
  <2>3. CASE D!Deliver(f)
    <3>1. LoopInv' /\ Seconds' /\ InTurn' /\ (f.snap > 0 => store' >= loop[f.by].shown)
      BY <2>3, LoopDelivers, SecondsDelivers
    <3>2. fetches' = fetches \ {f}
      BY <2>3 DEF D!Deliver
    <3> QED BY <3>1, <3>2 DEF Polled, Shown
  <2> QED BY <2>1, <2>2, <2>3
<1>6. ASSUME NEW i \in D!Loop, D!Wake(i)
      PROVE  LoopInv' /\ Seconds' /\ InTurn' /\ Polled /\ Shown
  <2>1. UNCHANGED <<second, registry, store>>
    BY <1>6 DEF D!Wake, D!env
  <2>2. /\ LoopInv' /\ \A j \in D!Loop : j # i => loop'[j] = loop[j]
        /\ Sends(i) \/ (fetches' = fetches /\ loop'[i].shown = 0)
        /\ \A f \in fetches : f.by # i
    BY <1>6, LoopWakes
  <2>3. Seconds' /\ InTurn'
    BY <2>1, <2>2, SecondsOfLoop DEF Sends
  <2>4. Sends(i) => Polled /\ Shown
    <3>1. Sends(i) => fetches \subseteq fetches'
      BY DEF Sends
    <3> QED BY <2>2, <3>1, SendsPolls DEF Shown
  <2> QED BY <1>0, <2>2, <2>3, <2>4
<1>7. ASSUME NEW p \in D!Page, D!Navigate(p)
      PROVE  LoopInv' /\ Seconds' /\ InTurn' /\ Polled /\ Shown
  <2>1. UNCHANGED <<second, registry, store>>
    BY <1>7 DEF D!Navigate, D!env
  <2> DEFINE i == mounts + 2
  <2>2. /\ LoopInv' /\ i \in D!Loop
        /\ \A j \in D!Loop : j # i => loop'[j].shown = loop[j].shown
        /\ Sends(i) \/ (fetches' = fetches /\ loop'[i].shown = loop[i].shown)
        /\ \A f \in fetches : f.by # i
    BY <1>7, LoopNavigates
  <2> HIDE DEF i
  <2>3. Seconds' /\ InTurn'
    BY <2>1, <2>2, SecondsOfLoop DEF Sends
  <2>4. Sends(i) => Polled /\ Shown
    <3>1. Sends(i) => fetches \subseteq fetches'
      BY DEF Sends
    <3> QED BY <2>2, <3>1, SendsPolls DEF Shown
  <2> QED BY <1>0, <2>2, <2>3, <2>4
<1>8. CASE D!Render \/ D!Refresh \/ D!Delete \/ (\E m \in Metrics : D!Select(m))
           \/ D!HistoryStep \/ UNCHANGED D!vars
  <2>1. UNCHANGED <<mounts, page, loop, fetches, store, second, registry>>
    BY <1>8 DEF D!Render, D!Refresh, D!Delete, D!Select, D!HistoryStep, D!RespondHistory,
       D!DeliverHistory, D!DeliverDelete, D!vars, D!env, D!live
  <2> QED BY <1>1, <2>1
<1> QED BY <1>3, <1>4, <1>5, <1>6, <1>7, <1>8 DEF D!Next

LEMMA DashboardInvariant == D!Spec => [](LoopInv /\ Seconds /\ InTurn)
<1>0. MaxMounts \in Nat
  BY DashboardAssumption
<1>1. D!Init => LoopInv /\ Seconds /\ InTurn
  BY <1>0, LoopInit, SecondsInit
<1>2. LoopInv /\ Seconds /\ InTurn /\ [D!Next]_D!vars => (LoopInv /\ Seconds /\ InTurn)'
  BY <1>0, DashboardStep
<1> QED BY <1>1, <1>2, PTL DEF D!Spec

\* However fast pages are opened and however late their answers are: a fetch is sent by the
\* loop of the open page only, and only when its previous one has been delivered.
THEOREM OneLoopPolls == D!Spec => OnePoller
<1>0. MaxMounts \in Nat
  BY DashboardAssumption
<1>1. Polled <=> \A f \in fetches' \ fetches :
                   f.answer = "none" =>
                     /\ page' \in Polling
                     /\ \A i \in Loop : loop'[i].active <=> i = f.by
                     /\ \A g \in fetches : g.by # f.by
  BY DEF Polled, Loop, D!Loop, Polling, D!Polling
<1>2. LoopInv /\ Seconds /\ InTurn /\ [D!Next]_D!vars
        => [\A f \in fetches' \ fetches :
              f.answer = "none" =>
                /\ page' \in Polling
                /\ \A i \in Loop : loop'[i].active <=> i = f.by
                /\ \A g \in fetches : g.by # f.by]_<<fetches, loop, page>>
  BY <1>0, <1>1, DashboardStep
<1> QED BY <1>2, DashboardInvariant, PTL DEF D!Spec, OnePoller

\* An answer that holds the metric never shows it older than its loop had seen it on the
\* screen, whichever answers of other pages came between.
THEOREM ShownInOrder == D!Spec => AnswersInTurn
<1>0. MaxMounts \in Nat
  BY DashboardAssumption
<1>1. LoopInv /\ Seconds /\ InTurn /\ [D!Next]_D!vars
        => [\A f \in fetches \ fetches' :
              f.snap > 0 => store' >= loop[f.by].shown]_<<fetches, store>>
  BY <1>0, DashboardStep DEF Shown
<1> QED BY <1>1, DashboardInvariant, PTL DEF D!Spec, AnswersInTurn

=============================================================================
