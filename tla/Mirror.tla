-------------------------------- MODULE Mirror --------------------------------
(***************************************************************************)
(* The rule-set mirror (internal/service/ruleset): it fetches the rule     *)
(* files the configs refer to and serves the last good copy.               *)
(*                                                                         *)
(* Run fetches the sources one after the other and starts a loop for each; *)
(* the loops run at once.  The sources are read from the store when the    *)
(* process starts and stay what they are until it starts again, whatever   *)
(* the configs come to say.                                                *)
(***************************************************************************)
EXTENDS Naturals

CONSTANTS
    File,        \* names with an extension, under which files are served
    Url,
    Provider,    \* rows with mirror = 1 that configs may have: [file, url]
    Dead,        \* URLs that never answer
    NoUrl, NoFile, Nothing, Asking, Failed,
    MaxVersions, \* bound: contents an upstream file ever has
    MaxSaves,    \* bound: changes of the providers
    MaxStops     \* bound: stops of the process

ASSUME MirrorAssumption ==
    /\ Provider \subseteq [file : File, url : Url]
    /\ Dead \subseteq Url
    /\ MaxVersions \in Nat \ {0}
    /\ NoUrl \notin Url /\ NoFile \notin File
    /\ {Nothing, Asking, Failed} \cap Nat = {}
    /\ Nothing \notin {Asking, Failed} /\ Asking # Failed

Version == 1 .. MaxVersions
By == {"run", "loop"}

VARIABLES
    wanted,    \* the rows of mihomo_rule_providers that are mirrored
    upstream,  \* the content each URL has now
    srcs,      \* m.srcs: the URL of each file that is mirrored
    cache,     \* m.data
    todo, at,  \* Run: the sources still to be fetched, and the one it is at
    loops,     \* the files whose loop has been started
    fetch,     \* the download Run or a loop is at, or what it brought
    saves, stops

vars == <<wanted, upstream, srcs, cache, todo, at, loops, fetch, saves, stops>>
outside == <<wanted, upstream, saves, stops>>

TypeOK ==
    /\ wanted \subseteq Provider
    /\ upstream \in [Url -> Version]
    /\ srcs \in [File -> Url \cup {NoUrl}]
    /\ cache \in [File -> Version \cup {Nothing}]
    /\ todo \subseteq File /\ loops \subseteq File
    /\ at \in File \cup {NoFile}
    /\ fetch \in [File \X By -> Version \cup {Nothing, Asking, Failed}]
    /\ saves \in Nat /\ stops \in Nat

(* New: the mirrored providers of every config.  Of two that share a name  *)
(* and an extension the last one read counts.                              *)
New(rows) ==
    {s \in [File -> Url \cup {NoUrl}] : \A f \in File :
        LET urls == {r.url : r \in {x \in rows : x.file = f}}
        IN  IF urls = {} THEN s[f] = NoUrl ELSE s[f] \in urls}

Mirrored(s) == {f \in File : s[f] # NoUrl}

Blank == [f \in File |-> Nothing]
Still == [x \in File \X By |-> Nothing]

Init ==
    /\ wanted \in SUBSET Provider
    /\ upstream = [u \in Url |-> 1]
    /\ srcs \in New(wanted)
    /\ todo = Mirrored(srcs) /\ at = NoFile /\ loops = {}
    /\ cache = Blank /\ fetch = Still
    /\ saves = 0 /\ stops = 0

(* Slip: the loop is started before the first fetch. *)
First_launched(f) ==
    /\ at = NoFile /\ f \in todo
    /\ at' = f /\ todo' = todo \ {f} /\ loops' = loops \cup {f}
    /\ fetch' = [fetch EXCEPT ![<<f, "run">>] = Asking]
    /\ UNCHANGED <<outside, srcs, cache>>
(* Run begins the first fetch of a source; the loops of others may run.    *)
First(f) ==
    /\ at = NoFile /\ f \in todo
    /\ at' = f /\ todo' = todo \ {f}
    /\ fetch' = [fetch EXCEPT ![<<f, "run">>] = Asking]
    /\ UNCHANGED <<outside, srcs, cache, loops>>

(* A tick of a loop's ticker; one that comes during a fetch is dropped. *)
Tick(f) ==
    /\ f \in loops /\ fetch[<<f, "loop">>] = Nothing
    /\ fetch' = [fetch EXCEPT ![<<f, "loop">>] = Asking]
    /\ UNCHANGED <<outside, srcs, cache, todo, at, loops>>

(* download: the file as it is upstream, or an error or a status other     *)
(* than 200, or nothing at all; at the latest after 30 s.                  *)
Answers(x, r) ==
    /\ fetch[x] = Asking
    /\ fetch' = [fetch EXCEPT ![x] = r]
    /\ UNCHANGED <<outside, srcs, cache, todo, at, loops>>
Brings(x) == srcs[x[1]] \notin Dead /\ Answers(x, upstream[srcs[x[1]]])
Download(x) == Brings(x) \/ Answers(x, Failed)

Good(r) == r # Failed

(* Slip: a loop is left when a fetch of it fails. *)
Kept_looping(x) == IF Good(fetch[x]) THEN loops \cup {x[1]} ELSE loops \ {x[1]}
Kept(x) == loops \cup {x[1]}

(* fetch keeps the last good copy; Run starts the loop after its fetch. *)
Keep(x) ==
    /\ fetch[x] \notin {Nothing, Asking}
    /\ cache' = IF Good(fetch[x]) THEN [cache EXCEPT ![x[1]] = fetch[x]] ELSE cache
    /\ fetch' = [fetch EXCEPT ![x] = Nothing]
    /\ loops' = Kept(x)
    /\ at' = IF x[2] = "run" THEN NoFile ELSE at
    /\ UNCHANGED <<outside, srcs, todo>>

(* A config is saved or deleted, a file changes upstream. *)
SaveProviders ==
    /\ saves < MaxSaves /\ saves' = saves + 1
    /\ wanted' \in SUBSET Provider
    /\ UNCHANGED <<upstream, srcs, cache, todo, at, loops, fetch, stops>>

Change(u) ==
    /\ u \notin Dead /\ upstream[u] < MaxVersions
    /\ upstream' = [upstream EXCEPT ![u] = @ + 1]
    /\ UNCHANGED <<wanted, srcs, cache, todo, at, loops, fetch, saves, stops>>

(* The process stops, and with it every loop; another reads the store. *)
Restart ==
    /\ stops < MaxStops /\ stops' = stops + 1
    /\ srcs' \in New(wanted)
    /\ todo' = Mirrored(srcs') /\ at' = NoFile /\ loops' = {}
    /\ cache' = Blank /\ fetch' = Still
    /\ UNCHANGED <<wanted, upstream, saves>>

Next ==
    \/ \E f \in File : First(f) \/ Tick(f)
    \/ \E x \in File \X By : Download(x) \/ Keep(x)
    \/ SaveProviders \/ Restart
    \/ \E u \in Url : Change(u)

(* Goroutines run, tickers tick, a download ends by its timeout, and one   *)
(* that is tried for ever succeeds in the end unless its URL is dead.      *)
Spec ==
    /\ Init /\ [][Next]_vars
    /\ \A f \in File : WF_vars(First(f)) /\ WF_vars(Tick(f))
    /\ \A x \in File \X By :
         WF_vars(Download(x)) /\ SF_vars(Brings(x)) /\ WF_vars(Keep(x))

-----------------------------------------------------------------------------

(* openspec, rule-provider-mirror: a refresh that fails leaves "the        *)
(* previously cached copy".  While the process runs, a file once served is *)
(* served for good, and never in an older version than before, although    *)
(* Run and the loops fetch at once.                                        *)
NeverOlder ==
    [][stops' = stops => \A f \in File :
         cache[f] # Nothing => cache'[f] # Nothing /\ cache'[f] >= cache[f]]_vars

(* Every source gets its turn and is kept up to date, though others are    *)
(* out of reach for ever and Run fetches them one after the other.         *)
LatestMirrored ==
    <>[](\A f \in Mirrored(srcs) :
           srcs[f] \notin Dead => cache[f] = upstream[srcs[f]])

=============================================================================
