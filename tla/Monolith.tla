------------------------------ MODULE Monolith ------------------------------
(***************************************************************************)
(* The demo social network (demo/monolith): handlers of the frontend call  *)
(* the post, user and social-graph services, a pool of timeline workers    *)
(* takes update jobs from a bounded channel, and every one of them keeps   *)
(* its state in one key-value store with ETags (database.Store).           *)
(*                                                                         *)
(* A handler or a job is the list of store steps its code makes; a step    *)
(* that edits a list reads it with its ETag and later saves it, and the    *)
(* steps of all processes interleave.  A post is a number, its timestamp.  *)
(***************************************************************************)
EXTENDS Naturals, Sequences, FiniteSets, SequencesExt

CONSTANTS Callers, Workers,     \* client connections; timeline workers
          Users, Posts,
          Scenarios,            \* what the callers ask for, one after another
          Friends,              \* the pairs <<u, v>>: u follows v at the start
          Clients,              \* implementations of Store: "dapr", "redis"
          BufferSize, MaxRetries, MaxTimelineSize, MaxFollows,
          MaxFaults,            \* bound: store calls that fail
          Missing

\* What a client may ask of the frontend.
Request ==
    [op : {"follow", "unfollow", "register"}, user : Users, on : Users]
    \cup [op : {"save", "delete", "comment", "upvote", "meta"},
          user : Users, on : Posts]
    \cup [op : {"home", "user"}, user : Users, on : {0}]

\* A post is named after its author and the time it was saved: it is saved
\* once, and deleted by its author, who learns its name from the answer.
OwnPosts(asked) ==
    \A c, d \in Callers : \A i \in DOMAIN asked[c], j \in DOMAIN asked[d] :
        (/\ asked[c][i].op = "save" /\ asked[d][j].op \in {"save", "delete"}
         /\ asked[c][i].on = asked[d][j].on)
            => c = d /\ i <= j /\ asked[c][i].user = asked[d][j].user

ASSUME MonolithAssumption ==
    /\ Callers \cap Workers = {}
    /\ {BufferSize, MaxRetries, MaxTimelineSize, MaxFollows} \subseteq Nat \ {0}
    /\ MaxFaults \in Nat
    /\ Posts \subseteq Nat
    /\ {"job", "call", "other"} \cap Users = {}
    /\ Scenarios \subseteq [Callers -> Seq(Request)]
    /\ \A asked \in Scenarios : OwnPosts(asked)
    /\ Friends \subseteq Users \X Users /\ IsFiniteSet(Friends)
    /\ Clients \subseteq {"dapr", "redis"}
    /\ Missing \notin Seq(Users) \cup Seq(Posts) \cup Seq(Callers)

VARIABLES store,     \* key -> the list stored under it, or Missing
          client,    \* which implementation of Store the services are given
          pending,   \* the requests a caller has still to send
          now,       \* the request or job a process works on
          todo,      \* the store steps left of it
          got,       \* what the process has read and not yet saved
          tries,     \* attempts refused for the current edit
          queue,     \* jobChan
          faults     \* store calls that may still fail

\* History: what was acknowledged, and what excuses a difference.
VARIABLES acked,     \* <<key, element>> added by a save that succeeded
          blind,     \* keys overwritten without an ETag
          disturbed, \* subjects of calls that failed or overlapped
          removed,   \* posts whose deletion was answered, content and all
          banned,    \* removed, when the caller's request began
          served     \* posts given to the caller

vars == <<store, client, pending, now, todo, got, tries, queue, faults,
          acked, blind, disturbed, removed, banned, served>>
history == <<acked, blind, disturbed, removed, banned, served>>

Procs == Callers \cup Workers
Keys == {"followees", "followers", "cred", "user", "home"} \X Users
        \cup {"img", "cont", "meta", "comm", "upv"} \X Posts

NoRead == [phase |-> "none", list |-> <<>>]

Busy(p) == todo[p] # <<>>
Step(p) == Head(todo[p])
At(p, kind) == Busy(p) /\ Step(p).kind = kind

-----------------------------------------------------------------------------
(* The store steps of a request.  bulk: saved by SaveBulkState; skip: an   *)
(* error is logged and the next step is taken.                             *)

Do(kind, key, edit, arg) ==
    [kind |-> kind, key |-> key, edit |-> edit, arg |-> arg,
     bulk |-> FALSE, skip |-> FALSE]
Put(key, list) == Do("put", key, "", list)
Edit(key, edit, x) == Do("edit", key, edit, x)
Logged(step) == [step EXCEPT !.skip = TRUE]
Bulk(step) == [step EXCEPT !.bulk = TRUE]

Follow(u, v) == <<Edit(<<"followees", u>>, "add", v),
                  Edit(<<"followers", v>>, "add", u)>>
\* Unfollow removes the followee from the wrong follower list.
UnfollowSwapped(u, v) == <<Edit(<<"followees", u>>, "drop", v),
                           Edit(<<"followers", u>>, "drop", v)>>

Unfollow(u, v) == <<Edit(<<"followees", u>>, "drop", v),
                    Edit(<<"followers", v>>, "drop", u)>>

Register(c, u) == <<Do("check", <<"cred", u>>, "", c),
                    Put(<<"cred", u>>, <<c>>)>> \o Follow(u, u)

SavePost(u, p) == <<Bulk(Put(<<"img", p>>, <<u>>)), Put(<<"cont", p>>, <<u>>),
                    Put(<<"meta", p>>, <<>>), Put(<<"comm", p>>, <<>>),
                    Put(<<"upv", p>>, <<>>)>>

DeletePost(p) ==
    [i \in 1..4 |-> Logged(Do("del", <<(<<"cont", "meta", "comm", "upv">>)[i], p>>,
                              "", p))]

Send(p) == <<Do("send", <<"cont", p>>, "", p)>>

UpdateSpecificTimeline(store_, u, add, p) ==
    Logged(Bulk(Edit(<<store_, u>>, IF add THEN "post" ELSE "unpost", p)))

Program(c, r) ==
    CASE r.op = "follow"   -> Follow(r.user, r.on)
      [] r.op = "unfollow" -> Unfollow(r.user, r.on)
      [] r.op = "register" -> Register(c, r.user)
      [] r.op = "save"     -> SavePost(r.user, r.on) \o Send(r.on)
      [] r.op = "delete"   -> DeletePost(r.on) \o Send(r.on)
      [] r.op = "comment"  -> <<Edit(<<"comm", r.on>>, "append", r.user)>>
      [] r.op = "upvote"   -> <<Edit(<<"upv", r.on>>, "toggle", r.user)>>
      [] r.op = "meta"     -> <<Edit(<<"meta", r.on>>, "set", r.user)>>
      [] r.op \in {"home", "user"} -> <<Do("list", <<r.op, r.user>>, "", 0)>>

\* Only additions are sent to the author's timeline.
JobProgramAddOnly(j) ==
    IF j.op = "save"
    THEN <<UpdateSpecificTimeline("user", j.user, TRUE, j.on),
           Do("fanout", <<"followers", j.user>>, "", j.on)>>
    ELSE <<UpdateSpecificTimeline("home", j.user, FALSE, j.on)>>

JobProgram(j) ==
    <<UpdateSpecificTimeline("user", j.user, j.op = "save", j.on)>>
    \o IF j.op = "save" THEN <<Do("fanout", <<"followers", j.user>>, "", j.on)>>
       ELSE <<>>

(* What an edit makes of the list it read. *)

\* A list in which x stands behind every post that is not older.
Placed(list, x) ==
    LET newer == Cardinality({i \in DOMAIN list : list[i] >= x})
    IN  SubSeq(list, 1, newer) \o <<x>> \o SubSeq(list, newer + 1, Len(list))

NewestFirst(list) ==
    LET sorted[n \in 0..Len(list)] ==
            IF n = 0 THEN <<>> ELSE Placed(sorted[n - 1], list[n])
    IN  sorted[Len(list)]

Newest(list) == SubSeq(list, 1, IF Len(list) > MaxTimelineSize
                                THEN MaxTimelineSize ELSE Len(list))
Latest(list) == SubSeq(list, IF Len(list) > MaxFollows
                             THEN Len(list) - MaxFollows + 1 ELSE 1, Len(list))
Without(list, x) ==
    LET kept[n \in 0..Len(list)] ==
            IF n = 0 THEN <<>>
            ELSE IF list[n] = x THEN kept[n - 1] ELSE Append(kept[n - 1], list[n])
    IN  kept[Len(list)]

Edited(edit, list, x) ==
    CASE edit = "add"    -> Latest(Append(list, x))
      [] edit = "drop"   -> Without(list, x)
      [] edit = "append" -> Append(list, x)
      [] edit = "set"    -> <<x>>
      [] edit = "toggle" -> IF Contains(list, x) THEN Without(list, x)
                            ELSE Append(list, x)
      [] edit = "unpost" -> Without(list, x)
      [] edit = "post"   -> IF Contains(list, x) THEN list
                            ELSE Newest(NewestFirst(Append(list, x)))

\* A follow list that needs no change is not saved.
NothingToSave(edit, list, x) ==
    \/ edit = "add" /\ Contains(list, x)
    \/ edit = "drop" /\ ~Contains(list, x)

-----------------------------------------------------------------------------
(* The subject of a request: what other requests may disturb. *)
Subject(p) == CASE now[p].op \in {"follow", "unfollow"} -> <<now[p].user, now[p].on>>
                [] now[p].op = "register" -> <<now[p].user, now[p].user>>
                [] p \in Workers          -> <<"job", now[p].on>>
                [] p \in Callers /\ now[p].op \in {"save", "delete"} ->
                     <<"call", now[p].on>>
                [] OTHER                  -> <<"other", now[p].on>>

\* The steps that remain after p's current one: those of fn, then the rest.
Proceed(p, more) ==
    /\ todo' = [todo EXCEPT ![p] = more \o Tail(@)]
    /\ tries' = [tries EXCEPT ![p] = 0]

\* An error stops the request, unless it is only logged.
Fail(p) ==
    /\ todo' = [todo EXCEPT ![p] = IF Head(@).skip THEN Tail(@) ELSE <<>>]
    /\ tries' = [tries EXCEPT ![p] = 0]
    /\ got' = [got EXCEPT ![p] = NoRead]
    /\ disturbed' = disturbed \cup {Subject(p)}

\* Writing key k makes the ETag of everyone else's read of k stale.
Write(p, k, list, mine) ==
    /\ store' = [store EXCEPT ![k] = list]
    /\ got' = [q \in Procs |->
                 IF q = p THEN mine
                 ELSE IF got[q].phase = "fresh" /\ Step(q).key = k
                      THEN [got[q] EXCEPT !.phase = "stale"] ELSE got[q]]

\* DaprStore.SaveState reads the item back for its new ETag.
AfterSave(p) ==
    IF client = "dapr" /\ ~Step(p).bulk THEN [NoRead EXCEPT !.phase = "confirm"]
    ELSE NoRead
SavedStep(p) == IF AfterSave(p) = NoRead THEN Proceed(p, <<>>)
                ELSE UNCHANGED <<todo, tries>>

-----------------------------------------------------------------------------
Init ==
    /\ store = [k \in Keys |->
                  LET mine == {f \in Friends : k = <<"followees", f[1]>>}
                      theirs == {f \in Friends : k = <<"followers", f[2]>>}
                  IN  IF mine # {} THEN SetToSeq({f[2] : f \in mine})
                      ELSE IF theirs # {} THEN SetToSeq({f[1] : f \in theirs})
                      ELSE Missing]
    /\ client \in Clients
    /\ pending \in Scenarios
    /\ now = [p \in Procs |-> [op |-> "idle"]]
    /\ todo = [p \in Procs |-> <<>>]
    /\ got = [p \in Procs |-> NoRead]
    /\ tries = [p \in Procs |-> 0]
    /\ queue = <<>> /\ faults = MaxFaults
    /\ acked = {} /\ blind = {} /\ disturbed = {} /\ removed = {}
    /\ banned = [c \in Callers |-> {}] /\ served = [c \in Callers |-> {}]

\* Work begins on a request or job; one on the same subject may be under way.
Begin(p, r, steps) ==
    /\ now' = [now EXCEPT ![p] = r]
    /\ todo' = [todo EXCEPT ![p] = steps]
    /\ LET others == {q \in Procs \ {p} : Busy(q) /\ Subject(q) = Subject(p)'}
       IN  disturbed' = disturbed \cup (IF others = {} THEN {} ELSE {Subject(p)'})

\* A handler of the frontend is called.
Call(c) ==
    /\ ~Busy(c) /\ pending[c] # <<>>
    /\ Begin(c, Head(pending[c]), Program(c, Head(pending[c])))
    /\ pending' = [pending EXCEPT ![c] = Tail(@)]
    /\ banned' = [banned EXCEPT ![c] = removed]
    /\ served' = [served EXCEPT ![c] = {}]
    /\ UNCHANGED <<store, client, got, tries, queue, faults, acked, blind, removed>>

\* A worker takes the next job.
Take(w) ==
    /\ ~Busy(w) /\ queue # <<>>
    /\ Begin(w, Head(queue), JobProgram(Head(queue)))
    /\ queue' = Tail(queue)
    /\ UNCHANGED <<store, client, pending, got, tries, faults, acked, blind,
                   removed, banned, served>>

\* GetState of an edit.  UpdateMeta does not create what is missing.
Get(p) ==
    LET s == Step(p) IN
    /\ At(p, "edit") /\ got[p] = NoRead
    /\ IF store[s.key] = Missing /\ s.edit = "set"
       THEN Fail(p) /\ UNCHANGED <<acked, blind, removed, banned, served>>
       ELSE /\ got' = [got EXCEPT ![p] =
                IF store[s.key] = Missing THEN [phase |-> "noetag", list |-> <<>>]
                ELSE [phase |-> "fresh", list |-> store[s.key]]]
            /\ UNCHANGED <<todo, tries, history>>
    /\ UNCHANGED <<store, client, pending, now, queue, faults>>

HasRead(p) == At(p, "edit") /\ got[p].phase \in {"fresh", "stale", "noetag"}

NoChange(p) ==
    /\ HasRead(p) /\ NothingToSave(Step(p).edit, got[p].list, Step(p).arg)
    /\ Proceed(p, <<>>)
    /\ got' = [got EXCEPT ![p] = NoRead]
    /\ UNCHANGED <<store, client, pending, now, queue, faults, history>>

ToSave(p) == HasRead(p) /\ ~NothingToSave(Step(p).edit, got[p].list, Step(p).arg)

\* The ETag is not checked.
SaveAcceptedAlways(p) == got[p].phase \in {"fresh", "stale", "noetag"}

\* Without an ETag the store overwrites whatever is there.
SaveAccepted(p) == got[p].phase \in {"fresh", "noetag"}

Save(p) ==
    LET s == Step(p)
        new == Edited(s.edit, got[p].list, s.arg)
        dropped == ToSet(Append(got[p].list, s.arg)) \ ToSet(new)
        trimmed == IF s.edit # "add" THEN {}
                   ELSE {IF s.key[1] = "followees" THEN <<s.key[2], x>>
                         ELSE <<x, s.key[2]>> : x \in dropped}
    IN  /\ ToSave(p) /\ SaveAccepted(p)
        /\ Write(p, s.key, new, AfterSave(p))
        /\ SavedStep(p)
        /\ blind' = IF got[p].phase = "noetag" /\ store[s.key] # Missing
                    THEN blind \cup {s.key} ELSE blind
        /\ acked' = (acked \ ({s.key} \X dropped))
                    \cup ({s.key} \X (ToSet(new) \cap {s.arg}))
        /\ disturbed' = disturbed \cup trimmed
        /\ UNCHANGED <<client, pending, now, queue, faults, removed, banned, served>>

(* A save with a stale ETag is refused.  RedisStore wraps ErrETagMismatch,  *)
(* or ErrKeyNotFoundForETag when the item is gone; DaprStore returns the    *)
(* error of Dapr's client, which the services do not recognise.             *)
WorthRetrying(p) == client = "redis" /\ store[Step(p).key] # Missing

\* The list is read once, before the loop, and every refusal tries again.
RetrySameRead(p) ==
    /\ ToSave(p) /\ ~SaveAccepted(p) /\ WorthRetrying(p)
    /\ UNCHANGED vars

Retry(p) ==
    /\ ToSave(p) /\ ~SaveAccepted(p) /\ WorthRetrying(p)
    /\ tries[p] + 1 < MaxRetries
    /\ tries' = [tries EXCEPT ![p] = @ + 1]
    /\ got' = [got EXCEPT ![p] = NoRead]
    /\ UNCHANGED <<store, client, pending, now, todo, queue, faults, history>>

GiveUp(p) ==
    /\ ToSave(p) /\ ~SaveAccepted(p)
    /\ WorthRetrying(p) => tries[p] + 1 >= MaxRetries
    /\ Fail(p)
    /\ UNCHANGED <<store, client, pending, now, queue, faults, acked, blind,
                   removed, banned, served>>

\* An item gone before it is read back fails the call that saved it.
Confirm(p) ==
    /\ Busy(p) /\ got[p].phase = "confirm"
    /\ IF store[Step(p).key] = Missing THEN Fail(p)
       ELSE /\ Proceed(p, <<>>)
            /\ got' = [got EXCEPT ![p] = NoRead]
            /\ UNCHANGED disturbed
    /\ UNCHANGED <<store, client, pending, now, queue, faults, acked, blind,
                   removed, banned, served>>

\* A value saved without an ETag: SavePost, SaveBulkState, Register.
Store(p) ==
    LET s == Step(p) IN
    /\ At(p, "put") /\ got[p] = NoRead
    /\ Write(p, s.key, s.arg, AfterSave(p))
    /\ SavedStep(p)
    /\ blind' = IF store[s.key] # Missing THEN blind \cup {s.key} ELSE blind
    /\ acked' = acked \cup ({s.key} \X ToSet(s.arg))
    /\ UNCHANGED <<client, pending, now, queue, faults, disturbed, removed,
                   banned, served>>

\* DeleteState without an ETag.
Delete(p) ==
    LET k == Step(p).key IN
    /\ At(p, "del")
    /\ Write(p, k, Missing, NoRead)
    /\ Proceed(p, <<>>)
    /\ acked' = {a \in acked : a[1] # k}
    /\ UNCHANGED <<client, pending, now, queue, faults, blind, disturbed,
                   removed, banned, served>>

\* Register looks for the user first.
Check(p) ==
    /\ At(p, "check")
    /\ IF store[Step(p).key] = Missing
       THEN Proceed(p, <<>>) /\ UNCHANGED <<got, disturbed>>
       ELSE Fail(p)
    /\ UNCHANGED <<store, client, pending, now, queue, faults, acked, blind,
                   removed, banned, served>>

\* A list that is not there reads as empty.
ListAt(k) == IF store[k] = Missing THEN <<>> ELSE store[k]

\* UpdateTimeline: the handler blocks while the channel is full.
Enqueue(c) ==
    /\ At(c, "send") /\ Len(queue) < BufferSize
    /\ queue' = Append(queue, now[c])
    /\ Proceed(c, <<>>)
    /\ removed' = IF now[c].op = "delete" /\ Subject(c) \notin disturbed
                  THEN removed \cup {now[c].on} ELSE removed
    /\ UNCHANGED <<store, client, pending, now, got, faults, acked, blind,
                   disturbed, banned, served>>

\* The worker reads the followers: their home timelines are updated in turn.
Fanout(w) ==
    LET followers == ListAt(Step(w).key)
    IN  /\ At(w, "fanout")
        /\ Proceed(w, [i \in 1..Len(followers) |->
                         UpdateSpecificTimeline("home", followers[i], TRUE, Step(w).arg)])
        /\ UNCHANGED <<store, client, pending, now, got, queue, faults, history>>

\* TimelineHandler: the post ids of a timeline, then each post's content.
ReadTimeline(c) ==
    LET list == ListAt(Step(c).key)
    IN  /\ At(c, "list")
        /\ Proceed(c, [i \in 1..Len(list) |->
                         Logged(Do("show", <<"cont", list[i]>>, "", list[i]))])
        /\ UNCHANGED <<store, client, pending, now, got, queue, faults, history>>

\* ReadPosts falls back to an empty post.
ReadPostAnyway(c) ==
    /\ At(c, "show")
    /\ served' = [served EXCEPT ![c] = @ \cup {Step(c).arg}]
    /\ Proceed(c, <<>>)
    /\ UNCHANGED <<store, client, pending, now, got, queue, faults, acked, blind,
                   disturbed, removed, banned>>

ReadPost(c) ==
    /\ At(c, "show")
    /\ served' = IF store[Step(c).key] = Missing THEN served
                 ELSE [served EXCEPT ![c] = @ \cup {Step(c).arg}]
    /\ Proceed(c, <<>>)
    /\ UNCHANGED <<store, client, pending, now, got, queue, faults, acked, blind,
                   disturbed, removed, banned>>

\* The store answers a call with an error; nothing is written.  A list of
\* followers that cannot be read counts as empty.
Fault(p) ==
    /\ faults > 0 /\ Busy(p) /\ ~At(p, "send")
    /\ faults' = faults - 1
    /\ IF At(p, "fanout") THEN Proceed(p, <<>>) /\ UNCHANGED <<got, disturbed>>
       ELSE Fail(p)
    /\ UNCHANGED <<store, client, pending, now, queue, acked, blind, removed,
                   banned, served>>

Run(p) == \/ Get(p) \/ NoChange(p) \/ Save(p) \/ Retry(p) \/ GiveUp(p)
          \/ Confirm(p) \/ Store(p) \/ Delete(p) \/ Check(p) \/ Enqueue(p)
          \/ Fanout(p) \/ ReadTimeline(p) \/ ReadPost(p) \/ Fault(p)

Next == \/ \E c \in Callers : Call(c)
        \/ \E w \in Workers : Take(w)
        \/ \E p \in Procs : Run(p)

\* Goroutines are scheduled fairly; a client need not send its next request.
Fairness == /\ \A p \in Procs : WF_vars(Run(p))
            /\ \A w \in Workers : WF_vars(Take(w))

Spec == Init /\ [][Next]_vars /\ Fairness

-----------------------------------------------------------------------------

(* An element whose save was accepted (a follower, a post on a timeline, a  *)
(* comment, a credential) stays until a step that means to remove it: ETags *)
(* lose an update only where some process saved without one over an item    *)
(* that had appeared since it looked (socialgraph/service.go:73,            *)
(* timelineservice/service.go:123, postservice/service.go:239).             *)
AcceptedSurvives ==
    \A a \in acked : \/ a[1] \in blind
                     \/ store[a[1]] # Missing /\ Contains(store[a[1]], a[2])

Idle == queue = <<>> /\ \A p \in Procs : ~Busy(p)
Listed(k, x) == store[k] # Missing /\ Contains(store[k], x)

(* Followees and followers are two lists written one after the other.  When *)
(* everything has settled they agree on every pair, except where a call on  *)
(* that pair failed half way or overlapped with another, a full list lost   *)
(* its oldest entry, or an item was overwritten without an ETag             *)
(* (socialgraph/service.go:240).                                            *)
FollowsMatch ==
    Idle => \A u, v \in Users :
        \/ <<u, v>> \in disturbed
        \/ {<<"followees", u>>, <<"followers", v>>} \cap blind # {}
        \/ Listed(<<"followees", u>>, v) <=> Listed(<<"followers", v>>, u)

(* A post whose deletion has been answered and carried out is not on its    *)
(* author's timeline once the workers are idle, unless the two jobs of the  *)
(* post overlapped in the pool or one of them failed (timelineservice/      *)
(* service.go:98), or the timeline was overwritten without an ETag.         *)
DeletedLeavesTimeline ==
    Idle => \A p \in removed, u \in Users :
        \/ <<"job", p>> \in disturbed \/ <<"user", u>> \in blind
        \/ ~Listed(<<"user", u>>, p)

(* Deletion does not touch the home timelines: they keep the id of the      *)
(* post.  It is still never served to a request that began after the        *)
(* deletion was answered, for ReadPosts skips a post without content.       *)
DeletedIsNotServed == \A c \in Callers : served[c] \cap banned[c] = {}

(* Every request is answered, also by a handler that found the channel of   *)
(* jobs full: the workers survive every error of a job and drain it         *)
(* (timelineservice/service.go:249).                                        *)
RequestsReturn == \A c \in Callers : Busy(c) ~> ~Busy(c)

=============================================================================
