----------------------------- MODULE MirrorProofs -----------------------------
(***************************************************************************)
(* NeverOlder for any files, providers and upstream changes.  It rests on  *)
(* the turns Run and a loop take at one file: Run's only fetch of it is    *)
(* over before its loop is started, so what a fetch holds is never older   *)
(* than what is cached.                                                    *)
(***************************************************************************)
EXTENDS Mirror, TLAPS

(* Of one file, the first fetch is to come, under way, or over, and the    *)
(* loop runs in the last case only.                                        *)
Turns ==
    \A f \in File :
        /\ fetch[<<f, "run">>] # Nothing => at = f
        /\ fetch[<<f, "loop">>] # Nothing => f \in loops
        /\ at = f => f \notin loops /\ f \notin todo
        /\ f \in loops => f \notin todo

(* Whatever is fetched is a file with a source. *)
Sourced == \A f \in File : f \in todo \cup loops \/ at = f => srcs[f] \in Url

(* What is cached of a file is not newer than what a fetch of it holds,    *)
(* and neither is newer than the upstream file.                            *)
Aged ==
    \A f \in File :
        /\ cache[f] # Nothing => srcs[f] \in Url /\ cache[f] <= upstream[srcs[f]]
        /\ \A b \in By : fetch[<<f, b>>] \in Version =>
             /\ fetch[<<f, b>>] <= upstream[srcs[f]]
             /\ cache[f] # Nothing => cache[f] <= fetch[<<f, b>>]

IInv == TypeOK /\ Turns /\ Sourced /\ Aged

LEMMA Versions == Version \subseteq Nat /\ 1 \in Version /\ Nothing \notin Version
                  /\ Asking \notin Version /\ Failed \notin Version
BY MirrorAssumption DEF Version

(* The sources a start reads: a file of New is mirrored from one URL.      *)
LEMMA Sources ==
    ASSUME NEW s \in New(wanted)
    PROVE  /\ s \in [File -> Url \cup {NoUrl}]
           /\ \A f \in Mirrored(s) : f \in File /\ s[f] \in Url
BY DEF New, Mirrored

(* The process as it starts, whatever the configs and upstream say. *)
Started ==
    /\ wanted \subseteq Provider /\ upstream \in [Url -> Version]
    /\ srcs \in New(wanted) /\ todo = Mirrored(srcs)
    /\ at = NoFile /\ loops = {} /\ cache = Blank /\ fetch = Still
    /\ saves \in Nat /\ stops \in Nat

LEMMA FreshStart == Started => IInv
<1> SUFFICES ASSUME Started PROVE IInv
  OBVIOUS
<1> USE DEF Started
<1>1. /\ srcs \in [File -> Url \cup {NoUrl}]
      /\ \A f \in todo : f \in File /\ srcs[f] \in Url
  BY Sources
<1>2. \A x \in File \X By : fetch[x] = Nothing
  BY DEF Still
<1>3. \A f \in File : cache[f] = Nothing /\ fetch[<<f, "run">>] = Nothing /\ fetch[<<f, "loop">>] = Nothing
  BY <1>2 DEF Blank, By
<1>4. TypeOK
  BY <1>1 DEF TypeOK, Blank, Still
<1>5. Turns
  BY <1>3, MirrorAssumption DEF Turns
<1>6. Sourced
  BY <1>1, MirrorAssumption DEF Sourced
<1>7. Aged
  BY <1>2, <1>3, Versions DEF Aged
<1> QED
  BY <1>4, <1>5, <1>6, <1>7 DEF IInv

LEMMA InitHolds == Init => IInv
<1> SUFFICES ASSUME Init PROVE IInv
  OBVIOUS
<1>1. wanted \subseteq Provider /\ upstream \in [Url -> Version]
  BY Versions DEF Init
<1> QED
  BY <1>1, FreshStart DEF Init, Started

(* A download begins: the first of a file by Run, or one of its loop. *)
LEMMA BeginHolds ==
    ASSUME IInv, NEW f \in File, First(f) \/ Tick(f)
    PROVE  IInv'
<1> USE DEF IInv
<1>1. PICK b \in By : fetch' = [fetch EXCEPT ![<<f, b>>] = Asking]
  BY DEF First, Tick, By
<1>2. \A g \in File, c \in By :
         fetch'[<<g, c>>] = IF g = f /\ c = b THEN Asking ELSE fetch[<<g, c>>]
  BY <1>1 DEF TypeOK
<1>3. UNCHANGED <<outside, srcs, cache>>
  BY DEF First, Tick
<1>4. TypeOK'
  BY <1>1, <1>3 DEF TypeOK, First, Tick, outside
<1>5. Turns'
  <2>1. CASE First(f)
    <3>1. \A g \in File : fetch'[<<g, "loop">>] = fetch[<<g, "loop">>]
      BY <2>1 DEF First, TypeOK, By
    <3>2. \A g \in File : g # f => fetch'[<<g, "run">>] = Nothing
      <4> SUFFICES ASSUME NEW g \in File, g # f PROVE fetch'[<<g, "run">>] = Nothing
        OBVIOUS
      <4>1. fetch'[<<g, "run">>] = fetch[<<g, "run">>]
        BY <2>1 DEF First, TypeOK, By
      <4> QED
        BY <2>1, <4>1, MirrorAssumption DEF First, Turns
    <3> QED
      BY <2>1, <3>1, <3>2, MirrorAssumption DEF First, Turns
  <2>2. CASE Tick(f)
    <3>1. f \in loops /\ UNCHANGED <<todo, at, loops>>
      BY <2>2 DEF Tick
    <3>2. \A g \in File : fetch'[<<g, "run">>] = fetch[<<g, "run">>]
      BY <2>2 DEF Tick, TypeOK, By
    <3>3. \A g \in File : g # f => fetch'[<<g, "loop">>] = fetch[<<g, "loop">>]
      BY <2>2 DEF Tick, TypeOK, By
    <3>4. \A g \in File : fetch'[<<g, "run">>] # Nothing => at = g
      BY <3>2 DEF Turns
    <3>5. \A g \in File : fetch'[<<g, "loop">>] # Nothing => g \in loops
      BY <3>1, <3>3 DEF Turns
    <3> QED
      BY <3>1, <3>4, <3>5 DEF Turns
  <2> QED
    BY <2>1, <2>2
<1>6. Sourced'
  BY <1>3 DEF Sourced, First, Tick
<1>7. Aged'
  BY <1>2, <1>3, Versions DEF Aged, outside
<1> QED
  BY <1>4, <1>5, <1>6, <1>7

(* A download ends, with the upstream file as it is or with nothing. *)
LEMMA DownloadHolds ==
    ASSUME IInv, NEW f \in File, NEW b \in By, Download(<<f, b>>)
    PROVE  IInv'
<1> USE DEF IInv
<1> DEFINE x == <<f, b>>
<1>1. x \in File \X By
  OBVIOUS
<1>2. fetch[x] = Asking /\ UNCHANGED <<outside, srcs, cache, todo, at, loops>>
  BY DEF Download, Brings, Answers
<1>3. srcs[f] \in Url
  <2>1. b \in {"run", "loop"} /\ fetch[x] # Nothing
    BY <1>2, MirrorAssumption DEF By
  <2> QED
    BY <2>1 DEF Turns, Sourced
<1>4. PICK r : /\ r \in {Failed, upstream[srcs[f]]}
               /\ fetch' = [fetch EXCEPT ![x] = r]
  BY DEF Download, Brings, Answers
<1>5. upstream[srcs[f]] \in Version
  BY <1>3 DEF TypeOK
<1>6. TypeOK'
  BY <1>1, <1>2, <1>4, <1>5 DEF TypeOK, outside
<1>7. \A g \in File, c \in By :
         fetch'[<<g, c>>] = IF g = f /\ c = b THEN r ELSE fetch[<<g, c>>]
  BY <1>4 DEF TypeOK
<1>8. Turns'
  <2>1. \A g \in File, c \in By : fetch'[<<g, c>>] # Nothing => fetch[<<g, c>>] # Nothing
    BY <1>2, <1>7, MirrorAssumption
  <2>2. "run" \in By /\ "loop" \in By
    BY DEF By
  <2> QED
    BY <1>2, <2>1, <2>2 DEF Turns
<1>9. Sourced'
  BY <1>2 DEF Sourced
<1>10. Aged'
  <2>1. \A g \in File, c \in By : fetch'[<<g, c>>] \in Version =>
           fetch'[<<g, c>>] = fetch[<<g, c>>] \/ (g = f /\ fetch'[<<g, c>>] = upstream[srcs[f]])
    BY <1>4, <1>7, Versions
  <2>2. upstream[srcs[f]] \in Nat /\ upstream' = upstream
    BY <1>2, <1>5, Versions DEF outside
  <2> QED
    BY <1>2, <2>1, <2>2 DEF Aged
<1> QED
  BY <1>6, <1>8, <1>9, <1>10

(* What a fetch holds is stored if it is good; and nothing gets older.     *)
LEMMA KeepHolds ==
    ASSUME IInv, NEW f \in File, NEW b \in By, Keep(<<f, b>>)
    PROVE  /\ IInv'
           /\ \A g \in File : cache[g] # Nothing =>
                cache'[g] # Nothing /\ cache'[g] >= cache[g]
<1> USE DEF IInv
<1> DEFINE x == <<f, b>>
           v == fetch[x]
<1>1. x \in File \X By /\ v \notin {Nothing, Asking} /\ UNCHANGED <<outside, srcs, todo>>
  BY DEF Keep
<1>2. v \in Version \/ v = Failed
  BY <1>1 DEF TypeOK
<1>3. cache' = IF v # Failed THEN [cache EXCEPT ![f] = v] ELSE cache
  BY DEF Keep, Good
<1>4. fetch' = [fetch EXCEPT ![x] = Nothing]
  BY DEF Keep
<1>5. loops' = loops \cup {f} /\ at' = IF b = "run" THEN NoFile ELSE at
  BY DEF Keep, Kept
<1>6. \A g \in File, c \in By :
         fetch'[<<g, c>>] = IF g = f /\ c = b THEN Nothing ELSE fetch[<<g, c>>]
  BY <1>4 DEF TypeOK
<1>7. \A g \in File : cache'[g] = IF g = f /\ v # Failed THEN v ELSE cache[g]
  BY <1>3 DEF TypeOK
<1>8. TypeOK'
  BY <1>1, <1>2, <1>3, <1>4, <1>5 DEF TypeOK, outside
<1>9. b \in {"run", "loop"} /\ "run" \in By /\ "loop" \in By
  BY DEF By
<1>10. Turns'
  BY <1>1, <1>5, <1>6, <1>9, MirrorAssumption DEF Turns
<1>11. f \in loops \/ at = f
  BY <1>1, <1>9 DEF Turns
<1>12. Sourced'
  BY <1>1, <1>5, <1>11, MirrorAssumption DEF Sourced
<1>13. \A c \in By : c # b => fetch[<<f, c>>] = Nothing
  BY <1>1, <1>9 DEF Turns, By
<1>14. Aged'
  <2>1. v \in Version => v <= upstream[srcs[f]] /\ srcs[f] \in Url
    BY <1>11 DEF Aged, Sourced
  <2> QED
    <3>1. \A g \in File, c \in By : fetch'[<<g, c>>] \in Version =>
             fetch'[<<g, c>>] = fetch[<<g, c>>] /\ fetch[<<g, c>>] \in Version /\ g # f
      BY <1>6, <1>13, Versions
    <3>2. upstream' = upstream /\ srcs' = srcs
      BY <1>1 DEF outside
    <3>3. cache'[f] # Nothing => srcs[f] \in Url /\ cache'[f] <= upstream[srcs[f]]
      BY <1>2, <1>7, <2>1 DEF Aged
    <3>4. \A g \in File : g # f => cache'[g] = cache[g]
      BY <1>7
    <3> QED
      BY <3>1, <3>2, <3>3, <3>4 DEF Aged
<1>15. v \in Version => v # Nothing /\ (cache[f] # Nothing => v >= cache[f])
  <2>1. v \in Version /\ cache[f] # Nothing => cache[f] <= v /\ cache[f] \in Version
    BY DEF Aged, TypeOK
  <2> QED
    BY <2>1, Versions
<1>16. \A g \in File : cache[g] # Nothing => cache[g] \in Nat
  BY Versions DEF TypeOK
<1> QED
  BY <1>2, <1>7, <1>8, <1>10, <1>12, <1>14, <1>15, <1>16

LEMMA ChangeHolds ==
    ASSUME IInv, NEW u \in Url, Change(u)
    PROVE  IInv'
<1> USE DEF IInv
<1>1. upstream[u] \in Nat /\ upstream[u] + 1 \in Version
  <2>1. upstream[u] \in Version /\ upstream[u] < MaxVersions
    BY DEF Change, TypeOK
  <2> QED
    BY <2>1, MirrorAssumption DEF Version
<1>2. \A w \in Url : upstream'[w] = IF w = u THEN upstream[u] + 1 ELSE upstream[w]
  BY DEF Change, TypeOK
<1>3. \A w \in Url : upstream[w] \in Nat /\ upstream'[w] \in Nat /\ upstream[w] <= upstream'[w]
  <2>1. \A w \in Url : upstream[w] \in Nat
    BY Versions DEF TypeOK
  <2> QED
    BY <1>1, <1>2, <2>1
<1>4. TypeOK'
  BY <1>1 DEF Change, TypeOK
<1>5. Turns' /\ Sourced'
  BY DEF Change, Turns, Sourced
<1>6. Aged'
  <2> SUFFICES ASSUME NEW f \in File PROVE
        /\ cache[f] # Nothing => srcs[f] \in Url /\ cache[f] <= upstream'[srcs[f]]
        /\ \A b \in By : fetch[<<f, b>>] \in Version =>
             /\ fetch[<<f, b>>] <= upstream'[srcs[f]]
             /\ cache[f] # Nothing => cache[f] <= fetch[<<f, b>>]
    BY DEF Change, Aged
  <2>1. cache[f] # Nothing => cache[f] \in Nat
    BY Versions DEF TypeOK
  <2>2. ASSUME NEW b \in By, fetch[<<f, b>>] \in Version
        PROVE  srcs[f] \in Url /\ fetch[<<f, b>>] \in Nat
    <3>1. b \in {"run", "loop"} /\ fetch[<<f, b>>] # Nothing
      BY <2>2, Versions DEF By
    <3> QED
      BY <2>2, <3>1, Versions DEF Turns, Sourced
  <2> QED
    BY <1>3, <2>1, <2>2 DEF Aged
<1> QED
  BY <1>4, <1>5, <1>6

LEMMA StepHolds ==
    ASSUME IInv, [Next]_vars
    PROVE  /\ IInv'
           /\ stops' = stops => \A f \in File : cache[f] # Nothing =>
                cache'[f] # Nothing /\ cache'[f] >= cache[f]
<1>1. \A f \in File : cache[f] # Nothing => cache[f] \in Nat
  BY Versions DEF IInv, TypeOK
<1>2. ASSUME NEW f \in File, First(f) \/ Tick(f)
      PROVE  IInv' /\ cache' = cache
  BY <1>2, BeginHolds DEF First, Tick
<1>3. ASSUME NEW x \in File \X By, Download(x)
      PROVE  IInv' /\ cache' = cache
  <2>1. PICK f \in File, b \in By : x = <<f, b>>
    OBVIOUS
  <2> QED
    BY <1>3, <2>1, DownloadHolds DEF Download, Brings, Answers
<1>4. ASSUME NEW x \in File \X By, Keep(x)
      PROVE  IInv' /\ \A f \in File : cache[f] # Nothing =>
                cache'[f] # Nothing /\ cache'[f] >= cache[f]
  <2>1. PICK f \in File, b \in By : x = <<f, b>>
    OBVIOUS
  <2> QED
    BY <1>4, <2>1, KeepHolds
<1>5. ASSUME SaveProviders PROVE IInv' /\ cache' = cache
  BY <1>5 DEF SaveProviders, IInv, TypeOK, Turns, Sourced, Aged
<1>6. ASSUME Restart PROVE IInv' /\ stops' # stops
  <2>1. Started'
    BY <1>6 DEF Restart, Started, IInv, TypeOK
  <2>2. IInv'
    BY <2>1, FreshStart, PTL
  <2>3. stops \in Nat
    BY DEF IInv, TypeOK
  <2> QED
    BY <1>6, <2>2, <2>3 DEF Restart
<1>7. ASSUME NEW u \in Url, Change(u) PROVE IInv' /\ cache' = cache
  BY <1>7, ChangeHolds DEF Change
<1>8. ASSUME UNCHANGED vars PROVE IInv' /\ cache' = cache
  BY <1>8 DEF vars, IInv, TypeOK, Turns, Sourced, Aged
<1> QED
  BY <1>1, <1>2, <1>3, <1>4, <1>5, <1>6, <1>7, <1>8 DEF Next

(* Every variable keeps its type; above all the cache holds nothing but    *)
(* versions, never what a failed download brought.                         *)
THEOREM TypeCorrect == Spec => []TypeOK
<1>1. IInv => TypeOK
  BY DEF IInv
<1> QED
  BY InitHolds, StepHolds, <1>1, PTL DEF Spec

(* A file once served is served until the process stops, and never in an   *)
(* older version, whatever upstream does and whichever of Run and the      *)
(* loops fetch at once (mirror.go: Run, loop, fetch).                      *)
THEOREM MirrorNeverOlder == Spec => NeverOlder
<1>1. IInv /\ [Next]_vars => IInv' /\
        [stops' = stops => \A f \in File :
           cache[f] # Nothing => cache'[f] # Nothing /\ cache'[f] >= cache[f]]_vars
  BY StepHolds
<1> QED
  BY InitHolds, <1>1, PTL DEF Spec, NeverOlder
=============================================================================
