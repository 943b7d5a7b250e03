----------------------------- MODULE MCMonolith -----------------------------
(* Two clients, two workers, a channel for one job; three users, two posts. *)
EXTENDS Monolith

Ask(op, user, on) == [op |-> op, user |-> user, on |-> on]

Two(one, other) == [c \in {"c1", "c2"} |-> IF c = "c1" THEN one ELSE other]

MCScenarios == {
    \* a follow and an unfollow of the same pair, and a second follower
    Two(<<Ask("follow", "ann", "cy")>>, <<Ask("unfollow", "ann", "cy")>>),
    Two(<<Ask("follow", "ann", "cy"), Ask("unfollow", "ann", "cy")>>,
        <<Ask("follow", "bob", "cy")>>),
    \* the same user registered twice; a list that loses its oldest entry
    Two(<<Ask("register", "cy", "cy")>>, <<Ask("register", "cy", "cy")>>),
    Two(<<Ask("register", "cy", "cy"), Ask("follow", "cy", "bob"),
          Ask("follow", "cy", "ann")>>, <<>>),
    \* a post deleted while it is read, or commented on
    Two(<<Ask("save", "ann", 1), Ask("delete", "ann", 1)>>,
        <<Ask("home", "bob", 0)>>),
    Two(<<Ask("save", "ann", 1), Ask("delete", "ann", 1)>>,
        <<Ask("comment", "bob", 1)>>),
    Two(<<Ask("save", "ann", 1), Ask("upvote", "cy", 1), Ask("meta", "ann", 1)>>,
        <<Ask("upvote", "bob", 1)>>),
    \* two posts at once: the channel is full and the timelines are contended
    Two(<<Ask("save", "ann", 1)>>, <<Ask("save", "ann", 2)>>)}

MCFriends == {<<"ann", "ann">>, <<"bob", "ann">>}

\* The list operators are a sort and a filter, over short lists.
ASSUME ListOperators ==
    \A n \in 0..4 : \A list \in [1..n -> 1..3] :
        /\ NewestFirst(list) = SortSeq(list, >)
        /\ \A x \in 1..3 : Without(list, x) = SelectSeq(list, LAMBDA y : y # x)
=============================================================================
