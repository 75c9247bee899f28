-------------------------------- MODULE Refs --------------------------------
(* How the application learns what the references of a repository point at,  *)
(* over a server that keeps moving them.  all_refs reads info/refs alone, or *)
(* packed-refs and then every loose file; lookup_ref reads one name, loose   *)
(* first, then packed, then info/refs; a symbolic reference is followed a    *)
(* bounded number of times.  Every read is a request of its own.             *)
EXTENDS Naturals
CONSTANTS Names, HeadName, DirOf, Lasting, Oids, PeelOf, Starts, MaxDepth, None,
          Listers, Lookups, Events
TargetOrNone == [oid : Oids, next : {None}] \cup [oid : {None}, next : Names] \cup {None}
EntryOrNone == [target : Oids, peeled : Oids \cup {None}] \cup {None}
Listing == [Names -> EntryOrNone] \cup {None}
\* What a table says a tag is peeled to is what it is.
PeeledRight(table) ==
    table # None =>
        \A n \in Names : table[n] # None => table[n].peeled \in {None, PeelOf[table[n].target]}
RefsAssumption ==
    /\ HeadName \in Names /\ DirOf \in [Names \ {HeadName} -> STRING]
    /\ PeelOf \in [Oids -> Oids \cup {None}]
    /\ MaxDepth \in Nat \ {0} /\ Events \in Nat /\ Listers \cap Lookups = {}
    /\ {None, "not found", "too deep"} \cap (Oids \cup Names) = {}
    /\ None \notin [oid : Oids \cup {None}, next : Names \cup {None}]
    /\ None \notin [target : Oids, peeled : Oids \cup {None}] /\ None \notin [Names -> EntryOrNone]
    /\ \A s \in Starts : /\ s.loose \in [Names -> TargetOrNone] /\ {s.packed, s.info} \subseteq Listing
                         /\ PeeledRight(s.packed) /\ PeeledRight(s.info)

Tasks == Listers \cup Lookups
Direct(oid) == [oid |-> oid, next |-> None]
Symbolic(name) == [oid |-> None, next |-> name]
Entry(oid, peeled) == [target |-> oid, peeled |-> peeled]
NoRefs == [n \in Names |-> None]

VARIABLES
    loose,     \* the files: a target for each name, or None
    packed,    \* packed-refs: an entry for each name, or no file at all
    info,      \* info/refs, as the last update-server-info left it, or no file
    pruning,   \* pack-refs: the loose files it has packed and has yet to delete
    ever,      \* every target each name has had
    steady,    \* the names that have existed at every moment so far
    events,    \* what has happened to the server, or to a request, so far
    packedKept,\* packed-refs, as this load fetched it
    stale,     \* whether the server has rewritten packed-refs since
    allRefs,   \* the listing the session reuses
    task       \* what each caller is doing
serverVars == <<loose, packed, info, pruning, ever, steady>>
clientVars == <<packedKept, allRefs>>
vars == <<serverVars, events, stale, clientVars, task>>

-----------------------------------------------------------------------------
(* The server.  The reference's value is its loose file's, or else its       *)
(* packed entry's.                                                           *)
Value(n) == IF loose[n] # None THEN loose[n]
            ELSE IF packed # None /\ packed[n] # None THEN Direct(packed[n].target)
            ELSE None
Exists(n) == Value(n) # None
Recorded == /\ ever' = [n \in Names |-> ever[n] \cup ({Value(n)'} \ {None})]
            /\ steady' = {n \in steady : Value(n)' # None}
Quiet == events = 0

Happens == /\ events < Events
           /\ events' = events + 1
           /\ UNCHANGED <<clientVars, task>>
Push(n, target) ==
    /\ Happens /\ loose' = [loose EXCEPT ![n] = target]
    /\ UNCHANGED <<packed, info, pruning, stale>> /\ Recorded
\* git removes the packed entry and the loose file; the order is its own, and
\* the name has a value until both are gone.
Delete(n) ==
    /\ Happens /\ Exists(n) /\ n # HeadName
    /\ loose' = [loose EXCEPT ![n] = None]
    /\ packed' = IF packed = None THEN None ELSE [packed EXCEPT ![n] = None]
    /\ stale' = (packedKept # None)
    /\ UNCHANGED <<info, pruning>> /\ Recorded
PackedEntry(n) ==
    IF n # HeadName /\ loose[n] # None /\ loose[n].next = None
    THEN Entry(loose[n].oid, PeelOf[loose[n].oid])
    ELSE IF packed = None THEN None ELSE packed[n]
PackRefs ==
    /\ Happens /\ pruning = NoRefs
    /\ packed' = [n \in Names |-> PackedEntry(n)]
    /\ pruning' = [n \in Names |-> IF n # HeadName /\ loose[n] # None /\ loose[n].next = None
                                   THEN loose[n] ELSE None]
    /\ stale' = (packedKept # None)
    /\ UNCHANGED <<loose, info>> /\ Recorded
\* A file that has changed since it was packed is left alone.
Prune(n) ==
    /\ pruning[n] # None
    /\ pruning' = [pruning EXCEPT ![n] = None]
    /\ loose' = [loose EXCEPT ![n] = IF @ = pruning[n] THEN None ELSE @]
    /\ UNCHANGED <<packed, info, events, stale, clientVars, task>> /\ Recorded
\* What each name comes to when followed through at most k others.
ChasedFrom(values, k) ==
    LET chased[i \in 0..k] ==
            [n \in Names |-> IF values[n] = None THEN None
                             ELSE IF values[n].oid # None THEN values[n].oid
                             ELSE IF i = 0 THEN None ELSE chased[i - 1][values[n].next]]
    IN chased[k]
Values == [n \in Names |-> Value(n)]
Chased(k) == ChasedFrom(Values, k)
UpdateServerInfo ==
    /\ Happens
    /\ LET oids == Chased(MaxDepth - 1) IN
       info' = [n \in Names |-> IF n = HeadName \/ oids[n] = None THEN None
                                ELSE Entry(oids[n], PeelOf[oids[n]])]
    /\ UNCHANGED <<loose, packed, pruning, stale>> /\ Recorded

-----------------------------------------------------------------------------
(* The client's reads.                                                       *)
At(t, pc) == task[t].pc = pc
Goes(t, next) == task' = [task EXCEPT ![t] = next]
Client == UNCHANGED <<serverVars, events>>
Loose(n) == loose[n]
\* packed-refs is fetched once a load; a missing file is not remembered.
PackedRead == IF packedKept # None THEN packedKept ELSE packed
KeepPacked == /\ packedKept' = PackedRead
              /\ stale' = (stale /\ packedKept # None)
InPacked(n) == IF PackedRead = None THEN None ELSE PackedRead[n]
InInfo(n) == IF info = None THEN None ELSE info[n]

\* Mutant of Shadow: the peeled commit of the packed entry is kept.
ShadowPeeled(entry, oid) == Entry(oid, IF entry = None THEN None ELSE entry.peeled)
Shadow(entry, oid) == Entry(oid, None)
With(out, n, oid) == [out EXCEPT ![n] = Shadow(out[n], oid)]

(* The listing.                                                              *)
Idle == [pc |-> "idle", out |-> NoRefs, dirs |-> {}, unread |-> {}, want |-> None,
         name |-> None, hops |-> 0, answer |-> None]
StartList(t) ==
    /\ t \in Listers /\ At(t, "idle") /\ Client
    /\ Goes(t, [task[t] EXCEPT !.pc = IF allRefs # None THEN "done" ELSE "info"])
    /\ UNCHANGED <<clientVars, stale>>
ReadInfo(t) ==
    /\ At(t, "info") /\ Client
    /\ Goes(t, IF info # None THEN [task[t] EXCEPT !.pc = "keep", !.out = info]
               ELSE [task[t] EXCEPT !.pc = "packed"])
    /\ UNCHANGED <<clientVars, stale>>
ReadPacked(t) ==
    /\ At(t, "packed") /\ Client /\ KeepPacked
    /\ Goes(t, [task[t] EXCEPT !.pc = "root", !.out = IF PackedRead = None THEN NoRefs ELSE PackedRead])
    /\ UNCHANGED allRefs
Dirs == Lasting \cup {DirOf[n] : n \in {k \in Names \ {HeadName} : loose[k] # None}}
ListRoot(t) ==
    /\ At(t, "root") /\ Client
    /\ Goes(t, [task[t] EXCEPT !.pc = "dirs", !.dirs = Dirs])
    /\ UNCHANGED <<clientVars, stale>>
\* A directory that has been removed since fails the listing.
ListDir(t) ==
    /\ At(t, "dirs") /\ Client
    /\ \/ \E d \in task[t].dirs :
            Goes(t, IF d \notin Dirs THEN [task[t] EXCEPT !.pc = "failed"]
                    ELSE [task[t] EXCEPT !.dirs = @ \ {d},
                            !.unread = @ \cup {n \in Names \ {HeadName} : DirOf[n] = d /\ loose[n] # None}])
       \/ task[t].dirs = {} /\ Goes(t, [task[t] EXCEPT !.pc = "reads"])
    /\ UNCHANGED <<clientVars, stale>>
ReadEntry(t) ==
    /\ At(t, "reads") /\ Client
    /\ \/ \E n \in task[t].unread :
            LET read == [task[t] EXCEPT !.unread = @ \ {n}] IN
            Goes(t, CASE Loose(n) = None -> read
                      [] Loose(n) # None /\ Loose(n).oid # None ->
                           [read EXCEPT !.out = With(@, n, Loose(n).oid)]
                      [] OTHER -> [read EXCEPT !.pc = "loose", !.want = n, !.name = Loose(n).next, !.hops = 0])
       \/ task[t].unread = {} /\ Goes(t, [task[t] EXCEPT !.pc = "keep"])
    /\ UNCHANGED <<clientVars, stale>>
Keep(t) ==
    /\ At(t, "keep") /\ Client
    /\ allRefs' = task[t].out
    /\ Goes(t, [task[t] EXCEPT !.pc = "done"])
    /\ UNCHANGED <<packedKept, stale>>

(* One name, and the chain that starts there.                                *)
Ends(t, answer) ==
    IF t \in Lookups THEN [task[t] EXCEPT !.pc = "done", !.answer = answer]
    ELSE [task[t] EXCEPT !.pc = "reads",
                         !.out = IF answer \in Oids THEN With(@, task[t].want, answer) ELSE @]
TooDeep(hops) == hops = MaxDepth
Hopped(hops) == hops + 1
Found(t, target) ==
    IF TooDeep(task[t].hops) THEN Ends(t, "too deep")
    ELSE IF target.oid # None THEN Ends(t, target.oid)
    ELSE [task[t] EXCEPT !.pc = "loose", !.name = target.next, !.hops = Hopped(@)]
StartLookup(t, n) ==
    /\ t \in Lookups /\ At(t, "idle") /\ Client
    /\ Goes(t, [task[t] EXCEPT !.pc = "loose", !.want = n, !.name = n])
    /\ UNCHANGED <<clientVars, stale>>
Unfound(t) == [task[t] EXCEPT !.pc = "info2"]
RefOf(entry) == IF entry = None THEN None ELSE Direct(entry.target)
Source(t) ==
    IF At(t, "loose") THEN Loose(task[t].name) ELSE RefOf(InPacked(task[t].name))
LookLoose(t) ==
    /\ At(t, "loose") /\ Client
    /\ Goes(t, IF Source(t) = None THEN [task[t] EXCEPT !.pc = "packed2"] ELSE Found(t, Source(t)))
    /\ UNCHANGED <<clientVars, stale>>
LookPacked(t) ==
    /\ At(t, "packed2") /\ Client /\ KeepPacked
    /\ Goes(t, IF Source(t) = None THEN Unfound(t) ELSE Found(t, Source(t)))
    /\ UNCHANGED allRefs
LookInfo(t) ==
    /\ At(t, "info2") /\ Client
    /\ LET target == RefOf(InInfo(task[t].name)) IN
       Goes(t, IF target = None THEN Ends(t, "not found") ELSE Found(t, target))
    /\ UNCHANGED <<clientVars, stale>>
\* Any request may fail, and the operation it belongs to with it.
RequestFails(t) ==
    /\ task[t].pc \notin {"idle", "keep", "done", "failed"} /\ events < Events
    /\ events' = events + 1
    /\ Goes(t, [task[t] EXCEPT !.pc = "failed"])
    /\ UNCHANGED <<serverVars, clientVars, stale>>

-----------------------------------------------------------------------------
Init ==
    /\ \E s \in Starts : loose = s.loose /\ packed = s.packed /\ info = s.info
    /\ pruning = NoRefs
    /\ ever = [n \in Names |-> ({loose[n]} \ {None}) \cup
                 {Direct(l[n].target) : l \in {k \in {packed, info} \ {None} : k[n] # None}}]
    /\ steady = {n \in Names : Exists(n)}
    /\ events = 0 /\ stale = FALSE /\ packedKept = None /\ allRefs = None
    /\ task = [t \in Tasks |-> Idle]

Server == \/ \E n \in Names \ {HeadName}, oid \in Oids : Push(n, Direct(oid))
          \/ \E n \in Names \ {HeadName} : Push(HeadName, Symbolic(n))
          \/ \E n \in Names : Delete(n)
          \/ PackRefs \/ (\E n \in Names : Prune(n)) \/ UpdateServerInfo
List(t) == StartList(t) \/ ReadInfo(t) \/ ReadPacked(t) \/ ListRoot(t) \/ ListDir(t)
           \/ ReadEntry(t) \/ Keep(t)
Look(t) == LookLoose(t) \/ LookPacked(t) \/ LookInfo(t)
Next == \/ Server
        \/ \E t \in Tasks : List(t) \/ Look(t) \/ RequestFails(t)
        \/ \E t \in Lookups, n \in Names : StartLookup(t, n)
Spec == Init /\ [][Next]_vars
FairSpec == Spec /\ \A t \in Tasks : WF_vars(List(t) \/ Look(t))

-----------------------------------------------------------------------------
(* Properties.                                                               *)
\* Every variable keeps to its type.
TypeOK ==
    /\ loose \in [Names -> TargetOrNone] /\ pruning \in [Names -> TargetOrNone]
    /\ \A n \in Names : ever[n] \subseteq TargetOrNone
    /\ packed \in Listing /\ info \in Listing /\ packedKept \in Listing /\ allRefs \in Listing
    /\ steady \subseteq Names /\ events \in 0..Events /\ stale \in BOOLEAN
    /\ \A t \in Tasks : /\ task[t].out \in [Names -> EntryOrNone]
                         /\ task[t].hops \in 0..MaxDepth
                         /\ task[t].unread \subseteq Names \ {HeadName}

\* What each name may have come to, whatever moved between two reads: a listing
\* follows a chain, and so did the info/refs that it may end in.
MayBe ==
    LET may[i \in 0..(2 * MaxDepth)] ==
            [n \in Names |-> {v.oid : v \in {e \in ever[n] : e.oid # None}} \cup
                UNION {IF i = 0 THEN {} ELSE may[i - 1][v.next] : v \in {e \in ever[n] : e.next # None}}]
    IN may[2 * MaxDepth]
\* A listed reference points where it has pointed at some moment, and a peeled
\* commit is that of the tag it is listed with: a page never pairs a new tag
\* with the commit of the one it replaced (packed_and_loose_refs).
ListingGenuine ==
    allRefs # None =>
        \A n \in Names : allRefs[n] # None =>
            /\ allRefs[n].target \in MayBe[n]
            /\ allRefs[n].peeled \in {None, PeelOf[allRefs[n].target]}

\* While nothing happens to the server, a listing made without info/refs is
\* what the references are: a loose file shadows its packed entry, a dangling
\* or looping reference costs only itself, and is listed only if packed-refs
\* still has an older entry of that name (packed_and_loose_refs).
QuietListingExact ==
    Quiet /\ allRefs # None /\ info = None =>
        LET oids == Chased(MaxDepth) IN
        \A n \in Names \ {HeadName} :
            IF oids[n] # None THEN allRefs[n] # None /\ allRefs[n].target = oids[n]
            ELSE allRefs[n] = IF loose[n] = None \/ packed = None THEN None ELSE packed[n]

\* While nothing happens to the server, a lookup finds every name a listing
\* shows, wherever it is recorded (lookup_ref's fallback to info/refs).
ListedIsFound ==
    \A t \in Lookups :
        (Quiet /\ allRefs # None /\ At(t, "done") /\ task[t].answer = "not found"
         /\ Loose(task[t].want) = None)
        => allRefs[task[t].want] = None

\* While nothing happens to the server, a lookup answers what the reference
\* points at now, however old the snapshot beside it is: the freshest source
\* is consulted first (lookup_ref).
QuietLookupExact ==
    \A t \in Lookups :
        LET oid == Chased(MaxDepth - 1)[task[t].want] IN
        (Quiet /\ At(t, "done") /\ oid # None) => task[t].answer = oid

\* A reference that exists throughout is found, though it moves from its file
\* to packed-refs between the two reads; only a packed-refs kept from before
\* the repack can hide it (lookup_ref reads the file first).
SteadyIsFound ==
    \A t \in Lookups :
        (At(t, "done") /\ task[t].answer = "not found" /\ ~stale) =>
            task[t].name \notin steady

\* Every listing and every lookup comes to an end, though symbolic references
\* may loop (SYMREF_MAX_DEPTH).
Ended(t) == At(t, "done") \/ At(t, "failed")
TasksEnd == \A t \in Tasks : ~At(t, "idle") ~> Ended(t)
=============================================================================
