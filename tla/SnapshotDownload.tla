--------------------------- MODULE SnapshotDownload ---------------------------
(***************************************************************************)
(* The verifying snapshot downloader: the threads that fetch one model     *)
(* snapshot, check it, and publish it into the content-addressed cache     *)
(* (downloader.py), together with the part of ModelManager.load and of the *)
(* /alice/ensure route that decides which of those threads exclude each    *)
(* other.                                                                  *)
(*                                                                         *)
(* A snapshot lives in two directories on disk, which survive a crash:     *)
(* "target", the place every reader looks at, and "partial", the staging   *)
(* directory beside it.  A directory is usable iff it holds the sentinel.  *)
(* The bytes of a file are abstracted to what a SHA-256 comparison can     *)
(* tell: missing, the expected bytes, or anything else.                    *)
(***************************************************************************)
EXTENDS Naturals, FiniteSets

CONSTANTS
    Files,        \* every file of the upstream repository at the pinned revision
    Patterns,     \* the files allow_patterns selects: what the runtime needs
    Listings,     \* what _expected_files may answer: sets of files with checksums
    Primary,      \* artifact_subpath: the file the existence-only check looks at
    Loaders,      \* threads in ModelManager.load, which hold the manager's lock
    Ensurers,     \* worker threads of /alice/ensure, which hold no lock
    MaxAttempts,  \* max_network_retries
    VERIFIED_SENTINEL,  \* the marker a usable directory holds
    NoOne, NoFile

ASSUME ConstantsAssumption ==
    /\ Patterns \subseteq Files
    /\ Listings \subseteq SUBSET Files
    /\ Listings # {}
    /\ Primary \in Patterns
    /\ MaxAttempts \in Nat \ {0}
    /\ Loaders \cap Ensurers = {}
    /\ NoOne \notin Loaders
    /\ NoFile \notin Files
    /\ VERIFIED_SENTINEL \notin Files

VARIABLES
    target,   \* the final snapshot directory
    partial,  \* the staging directory
    lock,     \* the holder of ModelManager._lock
    pc,       \* pc[w]: what thread w does next
    want,     \* want[w]: the files w has a checksum for
    todo,     \* todo[w]: the entries w's current loop has still to look at
    cur,      \* cur[w]: the file w fetches a second time
    attempt   \* attempt[w]: the number of the running snapshot call

disk == <<target, partial>>
local == <<want, todo, cur, attempt>>
vars == <<target, partial, lock, pc, want, todo, cur, attempt>>

Workers == Loaders \cup Ensurers
Entries == Files \cup {VERIFIED_SENTINEL}
Content == {"absent", "good", "bad"}
Dir == [dir : BOOLEAN, sentinel : BOOLEAN, file : [Files -> Content]]
NoDir == [dir |-> FALSE, sentinel |-> FALSE,
          file |-> [f \in Files |-> "absent"]]
Phase == {"idle", "check", "adopt", "prepare", "fetch", "verify", "unlink",
          "refetch", "recheck", "mark", "clear", "rmtree", "replace", "ready"}

Holds(d, S) == \A f \in S : d.file[f] = "good"
IsEmpty(d) == ~d.sentinel /\ \A f \in Files : d.file[f] = "absent"

TypeOK ==
    /\ target \in Dir
    /\ partial \in Dir
    /\ lock \in Loaders \cup {NoOne}
    /\ pc \in [Workers -> Phase]
    /\ want \in [Workers -> SUBSET Files]
    /\ todo \in [Workers -> SUBSET Entries]
    /\ cur \in [Workers -> Files \cup {NoFile}]
    /\ attempt \in [Workers -> 1..MaxAttempts]

(***************************************************************************)
(* The cache starts without a published snapshot.  The target directory    *)
(* may hold what a raw download of an older release left there: any subset *)
(* of the files, in any condition, and no sentinel.                        *)
(***************************************************************************)
Init ==
    /\ target \in {NoDir} \cup
                  [dir : {TRUE}, sentinel : {FALSE}, file : [Files -> Content]]
    /\ partial = NoDir
    /\ lock = NoOne
    /\ pc = [w \in Workers |-> "idle"]
    /\ want = [w \in Workers |-> {}]
    /\ todo = [w \in Workers |-> {}]
    /\ cur = [w \in Workers |-> NoFile]
    /\ attempt = [w \in Workers |-> 1]

Goto(w, phase) == pc' = [pc EXCEPT ![w] = phase]
Loop(w, S) == todo' = [todo EXCEPT ![w] = S]

\* The call returns or raises: its locals are gone, a load leaves the manager's
\* lock.  Nothing on disk is cleaned up after an error.
Leave(w) ==
    /\ Goto(w, "idle")
    /\ lock' = IF lock = w THEN NoOne ELSE lock
    /\ want' = [want EXCEPT ![w] = {}]
    /\ todo' = [todo EXCEPT ![w] = {}]
    /\ cur' = [cur EXCEPT ![w] = NoFile]
    /\ attempt' = [attempt EXCEPT ![w] = 1]

-----------------------------------------------------------------------------
(***************************************************************************)
(* Entering a download.                                                    *)
(***************************************************************************)
StartLoad(w) ==
    /\ w \in Loaders
    /\ pc[w] = "idle"
    /\ lock = NoOne
    /\ lock' = w
    /\ Goto(w, "check")
    /\ UNCHANGED <<disk, local>>

StartEnsure(w) ==
    /\ w \in Ensurers
    /\ pc[w] = "idle"
    /\ Goto(w, "check")
    /\ UNCHANGED <<disk, lock, local>>

CacheHit(w) ==
    /\ pc[w] = "check"
    /\ target.sentinel
    /\ Goto(w, "ready")
    /\ UNCHANGED <<disk, lock, local>>

\* No sentinel: look the checksums up, and see whether the files are there.
Expect(w) ==
    /\ pc[w] = "check"
    /\ ~target.sentinel
    /\ \E L \in Listings :
          /\ want' = [want EXCEPT ![w] = L]
          /\ Loop(w, L)
          /\ Goto(w, IF L # {} /\ target.dir THEN "adopt" ELSE "prepare")
    /\ UNCHANGED <<disk, lock, cur, attempt>>

AdoptFile(w, f) ==
    /\ pc[w] = "adopt"
    /\ f \in todo[w]
    /\ \/ /\ target.file[f] = "good"
          /\ Loop(w, todo[w] \ {f})
          /\ UNCHANGED pc
       \/ /\ target.file[f] # "good"
          /\ Goto(w, "prepare")
          /\ UNCHANGED todo
    /\ UNCHANGED <<disk, lock, want, cur, attempt>>

Adopt(w) ==
    /\ pc[w] = "adopt"
    /\ todo[w] = {}
    /\ UNCHANGED partial
    /\ \/ /\ target.dir
          /\ target' = [target EXCEPT !.sentinel = TRUE]
          /\ Goto(w, "ready")
          /\ UNCHANGED <<lock, local>>
       \/ /\ ~target.dir
          /\ Leave(w)
          /\ UNCHANGED target

-----------------------------------------------------------------------------
(***************************************************************************)
(* Fetching into the staging directory.  snapshot_download skips a file    *)
(* that is already there, whatever its bytes; a retry therefore resumes.   *)
(***************************************************************************)
\* The disk preflight needs a size, which only a listing gives.
Prepare(w) ==
    /\ pc[w] = "prepare"
    /\ partial' = [partial EXCEPT !.dir = TRUE]
    /\ UNCHANGED target
    /\ \/ /\ Goto(w, "fetch")
          /\ Loop(w, Patterns)
          /\ UNCHANGED <<lock, want, cur, attempt>>
       \/ /\ want[w] # {}
          /\ Leave(w)

Land(f, c) == partial' = [partial EXCEPT !.dir = TRUE, !.file[f] = c]

FetchFile(w, f) ==
    /\ pc[w] = "fetch"
    /\ f \in todo[w]
    /\ \/ /\ partial.file[f] = "absent"
          /\ \E c \in {"good", "bad"} : Land(f, c)
       \/ /\ partial.file[f] # "absent"
          /\ UNCHANGED partial
    /\ Loop(w, todo[w] \ {f})
    /\ UNCHANGED <<target, lock, pc, want, cur, attempt>>

\* Mutant: the attempts are not counted.
FetchErrorForEver(w) ==
    /\ pc[w] = "fetch"
    /\ Loop(w, Patterns)
    /\ UNCHANGED <<disk, lock, pc, want, cur, attempt>>

FetchError(w) ==
    /\ pc[w] = "fetch"
    /\ UNCHANGED disk
    /\ \/ /\ attempt[w] < MaxAttempts
          /\ attempt' = [attempt EXCEPT ![w] = @ + 1]
          /\ Loop(w, Patterns)
          /\ UNCHANGED <<lock, pc, want, cur>>
       \/ /\ attempt[w] = MaxAttempts
          /\ Leave(w)

\* Mutant: a snapshot call that returns early counts as complete.
FetchDoneEarly(w) ==
    /\ pc[w] = "fetch"
    /\ Goto(w, "verify")
    /\ Loop(w, want[w])
    /\ attempt' = [attempt EXCEPT ![w] = 1]
    /\ UNCHANGED <<disk, lock, want, cur>>

FetchDone(w) ==
    /\ pc[w] = "fetch"
    /\ todo[w] = {}
    /\ Goto(w, "verify")
    /\ Loop(w, want[w])
    /\ attempt' = [attempt EXCEPT ![w] = 1]
    /\ UNCHANGED <<disk, lock, want, cur>>

-----------------------------------------------------------------------------
(***************************************************************************)
(* Verifying: a file that does not match is deleted, fetched once more and *)
(* looked at once more.                                                    *)
(***************************************************************************)
VerifyFile(w, f) ==
    /\ pc[w] = "verify"
    /\ f \in todo[w]
    /\ \/ /\ partial.file[f] = "good"
          /\ Loop(w, todo[w] \ {f})
          /\ UNCHANGED <<pc, cur>>
       \/ /\ partial.file[f] # "good"
          /\ cur' = [cur EXCEPT ![w] = f]
          /\ Goto(w, "unlink")
          /\ UNCHANGED todo
    /\ UNCHANGED <<disk, lock, want, attempt>>

\* An unlink the file system refuses is ignored.
Unlink(w) ==
    /\ pc[w] = "unlink"
    /\ \/ partial' = [partial EXCEPT !.file[cur[w]] = "absent"]
       \/ UNCHANGED partial
    /\ Goto(w, "refetch")
    /\ UNCHANGED <<target, lock, local>>

RefetchOne(w) ==
    /\ pc[w] = "refetch"
    /\ UNCHANGED target
    /\ \/ /\ \E c \in {"good", "bad"} : Land(cur[w], c)
          /\ Goto(w, "recheck")
          /\ UNCHANGED <<lock, local>>
       \/ /\ Leave(w)
          /\ UNCHANGED partial

\* Mutant: a file fetched a second time is trusted.
RecheckNothing(w) ==
    /\ pc[w] = "recheck"
    /\ Goto(w, "verify")
    /\ Loop(w, todo[w] \ {cur[w]})
    /\ cur' = [cur EXCEPT ![w] = NoFile]
    /\ UNCHANGED <<disk, lock, want, attempt>>

Recheck(w) ==
    /\ pc[w] = "recheck"
    /\ UNCHANGED disk
    /\ \/ /\ partial.file[cur[w]] = "good"
          /\ Goto(w, "verify")
          /\ Loop(w, todo[w] \ {cur[w]})
          /\ cur' = [cur EXCEPT ![w] = NoFile]
          /\ UNCHANGED <<lock, want, attempt>>
       \/ /\ partial.file[cur[w]] # "good"
          /\ Leave(w)

\* Without a listing only the presence of the primary file is checked, and that it
\* is not empty, as other bytes than the right ones may be.
Verified(w) ==
    /\ pc[w] = "verify"
    /\ todo[w] = {}
    /\ UNCHANGED disk
    /\ \/ /\ want[w] = {} => partial.file[Primary] # "absent"
          /\ Goto(w, "mark")
          /\ UNCHANGED <<lock, local>>
       \/ /\ want[w] = {} /\ partial.file[Primary] # "good"
          /\ Leave(w)

-----------------------------------------------------------------------------
(***************************************************************************)
(* Publishing: sentinel into the staging directory, whatever is in the     *)
(* final place removed entry by entry, then one rename.                    *)
(***************************************************************************)
\* Mutant: the sentinel is forgotten.
MarkNothing(w) ==
    /\ pc[w] = "mark"
    /\ Goto(w, "clear")
    /\ UNCHANGED <<disk, lock, local>>

\* Mutant: the sentinel is written in the final place, before the move.
MarkTarget(w) ==
    /\ pc[w] = "mark"
    /\ target' = [target EXCEPT !.sentinel = target.dir]
    /\ Goto(w, "clear")
    /\ UNCHANGED <<partial, lock, local>>

Mark(w) ==
    /\ pc[w] = "mark"
    /\ UNCHANGED target
    /\ \/ /\ partial.dir
          /\ partial' = [partial EXCEPT !.sentinel = TRUE]
          /\ Goto(w, "clear")
          /\ UNCHANGED <<lock, local>>
       \/ /\ ~partial.dir
          /\ Leave(w)
          /\ UNCHANGED partial

Clear(w) ==
    /\ pc[w] = "clear"
    /\ \/ /\ target.dir
          /\ Goto(w, "rmtree")
          /\ Loop(w, Entries)
       \/ /\ ~target.dir
          /\ Goto(w, "replace")
          /\ UNCHANGED todo
    /\ UNCHANGED <<disk, lock, want, cur, attempt>>

\* ignore_errors: an entry that cannot be removed is left where it is.
RmtreeEntry(w, e) ==
    /\ pc[w] = "rmtree"
    /\ e \in todo[w]
    /\ Loop(w, todo[w] \ {e})
    /\ \/ target' = [target EXCEPT !.sentinel = @ /\ e # VERIFIED_SENTINEL,
                                   !.file = [f \in Files |->
                                       IF f = e THEN "absent" ELSE @[f]]]
       \/ UNCHANGED target
    /\ UNCHANGED <<partial, lock, pc, want, cur, attempt>>

RmtreeEnd(w) ==
    /\ pc[w] = "rmtree"
    /\ todo[w] = {}
    /\ target' = IF IsEmpty(target) THEN NoDir ELSE target
    /\ Goto(w, "replace")
    /\ UNCHANGED <<partial, lock, local>>

\* Mutant: a move that merges into the directory that is there.
CanReplaceAny == partial.dir

\* os.replace moves a directory onto a free name or onto an empty directory.
CanReplace == partial.dir /\ (target.dir => IsEmpty(target))

Replace(w) ==
    /\ pc[w] = "replace"
    /\ \/ /\ CanReplace
          /\ target' = partial
          /\ partial' = NoDir
          /\ Goto(w, "ready")
          /\ UNCHANGED <<lock, local>>
       \/ /\ ~CanReplace
          /\ Leave(w)
          /\ UNCHANGED disk

\* The caller is told the snapshot is ready.  A load stays in this phase while
\* the runtime reads the files of target, and then leaves the lock.
Finish(w) ==
    /\ pc[w] = "ready"
    /\ Leave(w)
    /\ UNCHANGED disk

\* The process dies: the threads and the lock are gone, the disk stays.
Crash ==
    /\ lock' = NoOne
    /\ pc' = [w \in Workers |-> "idle"]
    /\ want' = [w \in Workers |-> {}]
    /\ todo' = [w \in Workers |-> {}]
    /\ cur' = [w \in Workers |-> NoFile]
    /\ attempt' = [w \in Workers |-> 1]
    /\ UNCHANGED disk

-----------------------------------------------------------------------------
Step(w) ==
    \/ CacheHit(w) \/ Expect(w)
    \/ \E f \in Files : AdoptFile(w, f) \/ FetchFile(w, f) \/ VerifyFile(w, f)
    \/ Adopt(w) \/ Prepare(w) \/ FetchError(w) \/ FetchDone(w)
    \/ Unlink(w) \/ RefetchOne(w) \/ Recheck(w) \/ Verified(w)
    \/ Mark(w) \/ Clear(w) \/ RmtreeEnd(w) \/ Replace(w)
    \/ \E e \in Entries : RmtreeEntry(w, e)
    \/ Finish(w)

Start(w) == StartLoad(w) \/ StartEnsure(w)

Next ==
    \/ \E w \in Workers : Start(w) \/ Step(w)
    \/ Crash

Spec == Init /\ [][Next]_vars

\* A started thread keeps running: every call it makes returns or raises.
Fairness == \A w \in Workers : WF_vars(Step(w))
FairSpec == Spec /\ Fairness
-----------------------------------------------------------------------------
(***************************************************************************)
(* Properties.                                                             *)
(***************************************************************************)
\* At most one thread is inside a download.  The manager's lock makes this true
\* of loads; nothing makes it true of /alice/ensure.
Serial == \A v, w \in Workers : pc[v] # "idle" /\ pc[w] # "idle" => v = w

\* Fail-closed: a snapshot the resolver considers usable holds, for one listing
\* the lookup can answer, every listed file with the listed bytes.
PublishedIsVerified == target.sentinel => \E L \in Listings : Holds(target, L)

\* The whole snapshot: a usable snapshot misses no file the runtime needs.
PublishedIsWhole ==
    target.sentinel => \A f \in Patterns : target.file[f] # "absent"

\* A caller that is told the snapshot is ready, and a runtime that is reading
\* it, has a published snapshot in the final place.
ReadyIsPublished == \A w \in Workers : pc[w] = "ready" => target.sentinel

\* A download that ends in a rename delivers every file the runtime needs, the
\* ones without a checksum (MLX configuration, tokenizer) included.
FetchedIsWhole ==
    [][\A w \in Workers :
          pc[w] = "replace" /\ pc'[w] = "ready" =>
              \A f \in Patterns : target'.file[f] # "absent"]_vars

\* Whatever the threads do to one another, good bytes in the final place are
\* never overwritten there: a reader finds them or finds nothing.
NeverOverwritten ==
    [][\A f \in Files :
          target.file[f] = "good" => target'.file[f] # "bad"]_vars

\* Every call ends, in success or in an error: no file, network or disk answer,
\* and no other thread, keeps a thread in its loops.
EveryCallEnds == \A w \in Workers : pc[w] # "idle" ~> pc[w] = "idle"

\* How far a call is from its end.  The sections of a call are passed in one
\* direction; a section is a loop, over its attempts, over the entries it has left
\* and over the places of the second look at one file.
Section(p) ==
    CASE p = "check" -> 10 [] p = "adopt" -> 9 [] p = "prepare" -> 8
      [] p = "fetch" -> 7 [] p \in {"verify", "unlink", "refetch", "recheck"} -> 6
      [] p = "mark" -> 5 [] p = "clear" -> 4 [] p = "rmtree" -> 3
      [] p = "replace" -> 2 [] p = "ready" -> 1 [] p = "idle" -> 0
Place(p) ==
    CASE p = "verify" -> 3 [] p = "unlink" -> 2 [] p = "refetch" -> 1 [] OTHER -> 0

\* The lexicographic order of the four: it has no infinite descent, because the
\* sets of entries are finite.
Closer(w) ==
    \/ Section(pc'[w]) < Section(pc[w])
    \/ /\ Section(pc'[w]) = Section(pc[w])
       /\ \/ attempt'[w] > attempt[w]
          \/ /\ attempt'[w] = attempt[w]
             /\ \/ todo'[w] \subseteq todo[w] /\ todo'[w] # todo[w]
                \/ todo'[w] = todo[w] /\ Place(pc'[w]) < Place(pc[w])

\* Why every call ends: each step of a thread brings its call closer to the end,
\* whatever the other threads do to the files it works on.  In particular no
\* error starts a loop again without using up an attempt.
StepsCount == [][\A w \in Workers : Step(w) => Closer(w)]_vars

-----------------------------------------------------------------------------
(***************************************************************************)
(* The cache implements the store its readers are promised.                *)
(***************************************************************************)
Store == INSTANCE PublishedStore WITH
    Nothing <- NoFile,
    shelf <- IF target.sentinel THEN target.file ELSE NoFile

StoreSpec == Store!Spec
=============================================================================
