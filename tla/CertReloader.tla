----------------------------- MODULE CertReloader -----------------------------
(***************************************************************************)
(* The TLS certificate reloader (internal/cert) under handshakes that run  *)
(* at once, while a renewal rewrites the two files in place.               *)
(*                                                                         *)
(* A version is the number of the renewal a file comes from.  Only the     *)
(* lock of the three fields makes steps atomic; a stat or the reading of a *)
(* file is a step of its own.                                              *)
(***************************************************************************)
EXTENDS Naturals

CONSTANTS
    Handshake,   \* TLS handshakes that may run at once
    Torn,        \* a file that is being written
    NoCert,      \* nothing loaded yet
    MaxRenewals  \* bound: renewals in a behaviour

ASSUME ReloaderAssumption ==
    /\ MaxRenewals \in Nat
    /\ {Torn, NoCert} \cap Nat = {}

Version == 0 .. MaxRenewals
File == {"cert", "key"}

VARIABLES
    renewals,  \* renewals begun
    disk,      \* the version of each file, or Torn
    mtime,     \* of the cert file, counted in writes
    mem,       \* c.cert, as the versions of its halves, and c.certMod
    due,       \* more than a minute since c.loadedAt
    shake,     \* what each handshake is at
    raced      \* history: the latest renewal rewrote a file under a load

vars == <<renewals, disk, mtime, mem, due, shake, raced>>
files == <<renewals, disk, mtime>>

Idle == [pc |-> "idle", mod |-> 0, cert |-> 0, key |-> 0]
Loading == {"key", "mark", "store"}

Shake == [pc : {"idle", "stat", "cert"} \cup Loading, mod : Nat,
          cert : Version \cup {Torn}, key : Version]

TypeOK ==
    /\ renewals \in Version
    /\ disk \in [File -> Version \cup {Torn}]
    /\ mtime \in Nat
    /\ mem \in [cert : Version \cup {NoCert}, key : Version \cup {NoCert}, mod : Nat]
    /\ due \in BOOLEAN
    /\ shake \in [Handshake -> Shake]
    /\ raced \in BOOLEAN

(* NewReloader loads the pair before the server listens. *)
Init ==
    /\ renewals = 0
    /\ disk = [f \in File |-> 0]
    /\ mtime = 0
    /\ mem = [cert |-> NoCert, key |-> NoCert, mod |-> 0]
    /\ due = FALSE
    /\ \E h \in Handshake : shake = [g \in Handshake |->
                              IF g = h THEN [Idle EXCEPT !.pc = "cert"] ELSE Idle]
    /\ raced = FALSE

At(h, pc) == shake[h].pc = pc
Go(h, r) == shake' = [shake EXCEPT ![h] = r]

(* GetCertificate takes the certificate in memory and, a minute after the  *)
(* last look, goes on to the file; otherwise it is done.                   *)
Enter(h) ==
    /\ At(h, "idle") /\ mem.cert # NoCert /\ due
    /\ Go(h, [Idle EXCEPT !.pc = "stat", !.mod = mem.mod])
    /\ UNCHANGED <<files, mem, due, raced>>

Stat(h) ==
    /\ At(h, "stat")
    /\ IF mtime > shake[h].mod
       THEN Go(h, [shake[h] EXCEPT !.pc = "cert"]) /\ UNCHANGED due
       ELSE Go(h, Idle) /\ due' = FALSE
    /\ UNCHANGED <<files, mem, raced>>

ReadCert(h) ==
    /\ At(h, "cert")
    /\ Go(h, [shake[h] EXCEPT !.pc = "key", !.cert = disk["cert"]])
    /\ UNCHANGED <<files, mem, due, raced>>

(* A load that failed leaves everything as it was.  At the start it ends   *)
(* the process, which is started again.                                    *)
Fails(h) == Go(h, IF mem.cert = NoCert THEN [Idle EXCEPT !.pc = "cert"] ELSE Idle)

(* Slip: any two files are taken, unless one is half written. *)
Match_never(h) == Torn \notin {shake[h].cert, disk["key"]}
(* tls.LoadX509KeyPair refuses halves that do not belong together. *)
Match(h) == shake[h].cert # Torn /\ disk["key"] = shake[h].cert

ReadKey(h) ==
    /\ At(h, "key")
    /\ IF Match(h)
       THEN Go(h, [shake[h] EXCEPT !.pc = "mark", !.key = disk["key"]])
       ELSE Fails(h)
    /\ UNCHANGED <<files, mem, due, raced>>

(* The mtime is taken after the pair was read. *)
Mark(h) ==
    /\ At(h, "mark")
    /\ Go(h, [shake[h] EXCEPT !.pc = "store", !.mod = mtime])
    /\ UNCHANGED <<files, mem, due, raced>>

(* Slip: a reload refreshes the marks and not the certificate. *)
Store_marks(h) ==
    /\ At(h, "store")
    /\ mem' = IF mem.cert = NoCert
              THEN [cert |-> shake[h].cert, key |-> shake[h].key, mod |-> shake[h].mod]
              ELSE [mem EXCEPT !.mod = shake[h].mod]
    /\ due' = FALSE
    /\ Go(h, Idle)
    /\ UNCHANGED <<files, raced>>
Store(h) ==
    /\ At(h, "store")
    /\ mem' = [cert |-> shake[h].cert, key |-> shake[h].key, mod |-> shake[h].mod]
    /\ due' = FALSE
    /\ Go(h, Idle)
    /\ UNCHANGED <<files, raced>>

Minute ==
    /\ ~due
    /\ due' = TRUE
    /\ UNCHANGED <<files, mem, shake, raced>>

(* acme.sh writes the files of a renewal in place, in either order: each   *)
(* is truncated first.                                                     *)
Renew ==
    /\ renewals < MaxRenewals
    /\ disk = [f \in File |-> renewals]
    /\ renewals' = renewals + 1
    /\ raced' = FALSE
    /\ UNCHANGED <<disk, mtime, mem, due, shake>>

Rewrite(f) ==
    /\ disk[f] # renewals
    /\ disk' = [disk EXCEPT ![f] = IF @ = Torn THEN renewals ELSE Torn]
    /\ mtime' = IF f = "cert" THEN mtime + 1 ELSE mtime
    /\ raced' = (raced \/ \E h \in Handshake : shake[h].pc \in Loading)
    /\ UNCHANGED <<renewals, mem, due, shake>>

Reload(h) == Stat(h) \/ ReadCert(h) \/ ReadKey(h) \/ Mark(h) \/ Store(h)

Next ==
    \/ \E h \in Handshake : Enter(h) \/ Reload(h)
    \/ Minute
    \/ Renew
    \/ \E f \in File : Rewrite(f)

(* Handshakes keep coming and run to their end, time passes, and a renewal *)
(* that has begun is finished.                                             *)
Spec ==
    /\ Init /\ [][Next]_vars
    /\ \A h \in Handshake : WF_vars(Enter(h)) /\ WF_vars(Reload(h))
    /\ WF_vars(Minute)
    /\ \A f \in File : WF_vars(Rewrite(f))

-----------------------------------------------------------------------------

(* A handshake is answered with a certificate and the key that belongs to  *)
(* it, also when it comes between the writes of a renewal or next to       *)
(* another reload (GetCertificate).                                        *)
PairWhole == mem.cert = mem.key

(* cert.go: the reloader "reloads it when the cert file's mtime advances". *)
(* Halfway renewals and failed loads do not keep the last certificate from *)
(* being served, and stay so, unless the last renewal rewrote a file under *)
(* a load: reload stats the file after it has read it, and an mtime that   *)
(* advanced in between is recorded with the old certificate.  The next     *)
(* renewal makes up for that.                                              *)
LatestServed == <>[]~raced => <>[](mem.cert = renewals)

=============================================================================
