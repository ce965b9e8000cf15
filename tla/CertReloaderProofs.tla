-------------------------- MODULE CertReloaderProofs --------------------------
(***************************************************************************)
(* PairWhole for any number of handshakes and renewals.  It is not         *)
(* inductive alone: what a handshake is about to store has to match, too.  *)
(***************************************************************************)
EXTENDS CertReloader, TLAPS

(* The types without those of the two flags. *)
Shaped ==
    /\ renewals \in Version
    /\ disk \in [File -> Version \cup {Torn}]
    /\ mtime \in Nat
    /\ mem \in [cert : Version \cup {NoCert}, key : Version \cup {NoCert}, mod : Nat]
    /\ shake \in [Handshake -> Shake]

Flags == due \in BOOLEAN /\ raced \in BOOLEAN

(* What every load has in hand once both halves were read. *)
Paired(r) == r.pc \in {"mark", "store"} => r.cert = r.key

InHand == \A h \in Handshake : Paired(shake[h])

IInv == Shaped /\ Flags /\ InHand /\ PairWhole

(* A step of one handshake concerns only what that one has in hand. *)
LEMMA GoHolds ==
    ASSUME NEW h \in Handshake, NEW r \in Shake, Paired(r), Go(h, r),
           shake \in [Handshake -> Shake], InHand
    PROVE  shake' \in [Handshake -> Shake] /\ InHand'
<1>1. shake' = [shake EXCEPT ![h] = r]
  BY DEF Go
<1>2. \A g \in Handshake : shake'[g] = IF g = h THEN r ELSE shake[g]
  BY <1>1
<1>3. InHand'
  BY <1>2 DEF InHand, Paired
<1> QED
  BY <1>1, <1>3

LEMMA InitHolds == Init => IInv
<1> SUFFICES ASSUME Init PROVE IInv
  OBVIOUS
<1>1. 0 \in Version
  BY ReloaderAssumption DEF Version
<1>2. Shaped
  <2>1. mem \in [cert : Version \cup {NoCert}, key : Version \cup {NoCert}, mod : Nat]
    BY DEF Init
  <2>2. Idle \in Shake /\ [Idle EXCEPT !.pc = "cert"] \in Shake
    BY <1>1 DEF Idle, Shake, Loading
  <2>3. shake \in [Handshake -> Shake]
    BY <2>2 DEF Init
  <2> QED
    BY <1>1, <2>1, <2>3 DEF Init, Shaped, File
<1>3. InHand
  BY SMTT(30) DEF Init, InHand, Paired, Idle
<1>4. PairWhole
  BY DEF Init, PairWhole
<1>5. Flags
  BY DEF Init, Flags
<1> QED
  BY <1>2, <1>3, <1>4, <1>5 DEF IInv

LEMMA FlagsHold == Flags /\ [Next]_vars => Flags'
<1> SUFFICES ASSUME Flags, [Next]_vars PROVE Flags'
  OBVIOUS
<1> USE DEF Flags
<1>1. ASSUME NEW h \in Handshake, Enter(h) \/ Reload(h) PROVE Flags'
  <2>1. UNCHANGED raced
    BY <1>1 DEF Enter, Reload, Stat, ReadCert, ReadKey, Mark, Store
  <2>2. due' = due \/ due' = FALSE
    BY <1>1 DEF Enter, Reload, Stat, ReadCert, ReadKey, Mark, Store
  <2> QED
    BY <2>1, <2>2
<1>2. ASSUME Minute \/ Renew PROVE Flags'
  BY <1>2 DEF Minute, Renew
<1>3. ASSUME NEW f \in File, Rewrite(f) PROVE Flags'
  BY <1>3 DEF Rewrite
<1>4. ASSUME UNCHANGED vars PROVE Flags'
  BY <1>4 DEF vars
<1> QED
  BY <1>1, <1>2, <1>3, <1>4 DEF Next

LEMMA StepHolds == IInv /\ [Next]_vars => IInv'
<1> SUFFICES ASSUME IInv, [Next]_vars PROVE IInv'
  OBVIOUS
<1> USE DEF IInv
<1>0. Flags'
  BY FlagsHold
<1>1. 0 \in Version
  BY ReloaderAssumption DEF Version
<1>2. ASSUME NEW h \in Handshake, NEW r \in Shake, Paired(r), Go(h, r),
             UNCHANGED <<files, mem>>
      PROVE  IInv'
  BY <1>0, <1>2, GoHolds DEF Shaped, PairWhole, files
<1>3. \A h \in Handshake : shake[h] \in Shake
  BY DEF Shaped
<1>4. ASSUME NEW h \in Handshake, Enter(h) PROVE IInv'
  <2> DEFINE r == [Idle EXCEPT !.pc = "stat", !.mod = mem.mod]
  <2>1. r \in Shake /\ Paired(r)
    BY <1>1 DEF Shaped, Shake, Idle, Loading, Paired
  <2>2. Go(h, r) /\ UNCHANGED <<files, mem>>
    BY <1>4 DEF Enter
  <2> HIDE DEF r
  <2> QED
    BY <1>2, <2>1, <2>2
<1>5. Idle \in Shake /\ Paired(Idle)
  BY <1>1 DEF Shake, Idle, Loading, Paired
<1>6. ASSUME NEW h \in Handshake, Stat(h) PROVE IInv'
  <2> DEFINE r == [shake[h] EXCEPT !.pc = "cert"]
  <2>1. r \in Shake /\ Paired(r)
    BY <1>3 DEF Shake, Loading, Paired
  <2>2. (Go(h, r) \/ Go(h, Idle)) /\ UNCHANGED <<files, mem>>
    BY <1>6 DEF Stat
  <2> HIDE DEF r
  <2> QED
    BY <1>2, <1>5, <2>1, <2>2
<1>7. ASSUME NEW h \in Handshake, ReadCert(h) PROVE IInv'
  <2> DEFINE r == [shake[h] EXCEPT !.pc = "key", !.cert = disk["cert"]]
  <2>1. disk["cert"] \in Version \cup {Torn}
    BY DEF Shaped, File
  <2>2. r \in Shake /\ Paired(r)
    BY <1>3, <2>1 DEF Shake, Loading, Paired
  <2>3. Go(h, r) /\ UNCHANGED <<files, mem>>
    BY <1>7 DEF ReadCert
  <2> HIDE DEF r
  <2> QED
    BY <1>2, <2>2, <2>3
<1>8. ASSUME NEW h \in Handshake, ReadKey(h) PROVE IInv'
  <2>1. UNCHANGED <<files, mem>>
    BY <1>8 DEF ReadKey
  <2>2. CASE Match(h)
    <3> DEFINE r == [shake[h] EXCEPT !.pc = "mark", !.key = disk["key"]]
    <3>1. disk["key"] = shake[h].cert /\ disk["key"] \in Version
      BY <2>2 DEF Match, Shaped, File
    <3>2. r \in Shake /\ Paired(r)
      BY <1>3, <3>1 DEF Shake, Loading, Paired
    <3>3. Go(h, r)
      BY <1>8, <2>2 DEF ReadKey
    <3> HIDE DEF r
    <3> QED
      BY <1>2, <2>1, <3>2, <3>3
  <2>3. CASE ~Match(h)
    <3> DEFINE again == [Idle EXCEPT !.pc = "cert"]
    <3>1. again \in Shake /\ Paired(again)
      BY <1>1 DEF Shake, Idle, Loading, Paired
    <3>2. Go(h, again) \/ Go(h, Idle)
      BY <1>8, <2>3 DEF ReadKey, Fails
    <3> HIDE DEF again
    <3> QED
      BY <1>2, <1>5, <2>1, <3>1, <3>2
  <2> QED
    BY <2>2, <2>3
<1>9. ASSUME NEW h \in Handshake, Mark(h) PROVE IInv'
  <2> DEFINE r == [shake[h] EXCEPT !.pc = "store", !.mod = mtime]
  <2>1. Paired(shake[h]) /\ shake[h].pc = "mark" /\ mtime \in Nat
    BY <1>9 DEF Mark, At, InHand, Shaped
  <2>2. r \in Shake /\ Paired(r)
    BY <1>3, <2>1 DEF Shake, Loading, Paired
  <2>3. Go(h, r) /\ UNCHANGED <<files, mem>>
    BY <1>9 DEF Mark
  <2> HIDE DEF r
  <2> QED
    BY <1>2, <2>2, <2>3
<1>10. ASSUME NEW h \in Handshake, Store(h) PROVE IInv'
  <2>1. Go(h, Idle) /\ UNCHANGED files
    BY <1>10 DEF Store
  <2>2. shake' \in [Handshake -> Shake] /\ InHand'
    BY <1>5, <2>1, GoHolds DEF Shaped
  <2>3. shake[h].cert = shake[h].key /\ shake[h].mod \in Nat
    BY <1>3, <1>10 DEF Store, At, InHand, Paired, Shake
  <2>4. mem' = [cert |-> shake[h].cert, key |-> shake[h].key, mod |-> shake[h].mod]
    BY <1>10 DEF Store
  <2>5. PairWhole'
    BY <2>3, <2>4 DEF PairWhole
  <2>6. mem' \in [cert : Version \cup {NoCert}, key : Version \cup {NoCert}, mod : Nat]
    BY <1>3, <2>3, <2>4 DEF Shake
  <2> QED
    BY <1>0, <2>1, <2>2, <2>5, <2>6 DEF Shaped, files
<1>11. CASE Minute \/ Renew
  <2>1. Renew => renewals' \in Version
    BY ReloaderAssumption DEF Renew, Version, Shaped
  <2> QED
    BY <1>0, <1>11, <2>1 DEF Minute, Renew, files, Shaped, InHand, PairWhole
<1>12. ASSUME NEW f \in File, Rewrite(f) PROVE IInv'
  <2>1. disk' \in [File -> Version \cup {Torn}]
    BY <1>12 DEF Rewrite, Shaped
  <2> QED
    BY <1>0, <1>12, <2>1 DEF Rewrite, Shaped, InHand, PairWhole
<1>13. CASE UNCHANGED vars
  BY <1>0, <1>13 DEF vars, files, Shaped, InHand, PairWhole
<1> QED
  BY <1>4, <1>6, <1>7, <1>8, <1>9, <1>10, <1>11, <1>12, <1>13 DEF Next, Reload

(* GetCertificate never hands out a certificate with a key that is not     *)
(* its own, however many handshakes reload at once and however the writes  *)
(* of renewals fall between their steps.                                   *)
THEOREM ServedPairWhole == Spec => []PairWhole
<1>1. IInv => PairWhole
  BY DEF IInv
<1> QED
  BY InitHolds, StepHolds, <1>1, PTL DEF Spec

(* Every variable keeps its type: no half-written file gets into memory. *)
THEOREM TypeCorrect == Spec => []TypeOK
<1>1. IInv => TypeOK
  BY DEF IInv, Shaped, Flags, TypeOK
<1> QED
  BY InitHolds, StepHolds, <1>1, PTL DEF Spec
=============================================================================
