---------------------------- MODULE Topological -----------------------------
(***************************************************************************)
(* Topological (snow/consensus/snowman/topological.go): consensus over a    *)
(* tree of blocks.  Every block of the tree holds a snowball instance over  *)
(* its children; a poll is recorded on the instances from the last accepted *)
(* block (head) downwards as long as alpha votes lie below, and a child of  *)
(* head is accepted when the instance of head is finalized.                 *)
(*                                                                          *)
(* RecordPoll runs under the lock of the chain.  Its two loops, over the    *)
(* stack of votes and down the preferred branch, take one step per          *)
(* iteration here (pc); nothing else is enabled until it returns.           *)
(*                                                                          *)
(* The snowball instances are a parameter: SbNew ... SbFinalized are the    *)
(* methods of the Consensus interface of snow/consensus/snowball.           *)
(***************************************************************************)
EXTENDS BlockTree

CONSTANTS
    SbNew(_),            \* Initialize with a first choice
    SbAdd(_, _),         \* Add a choice
    SbFalter(_),         \* RecordUnsuccessfulPoll
    SbPolls(_, _),       \* RecordPoll with votes (choice -> count): the possible
                         \* next states
    SbPreference(_),     \* Preference
    SbFinalized(_),      \* Finalized
    NoSb                 \* a nil instance

VARIABLES
    blocks,        \* keys of ts.blocks
    children, sb, shouldFalter,   \* the fields of snowmanBlock
    status,        \* the VM's status of each block
    head,          \* last accepted block; ts.height is Height[head]
    preferredIDs, tail,
    pc,            \* where RecordPoll is, or "idle"
    votes,         \* the votes of the poll that count: slot -> block
    at,            \* vote: the block on top of voteStack
    newPreferred, onPreferredBranch

treeVars == <<blocks, children, sb, shouldFalter, status, head>>
pollVars == <<pc, votes, at, newPreferred, onPreferredBranch>>
vars == <<treeVars, preferredIDs, tail, pollVars>>

Init ==
    /\ blocks = {Genesis}
    /\ children = [b \in Blocks |-> {}]
    /\ sb = [b \in Blocks |-> NoSb]
    /\ shouldFalter = [b \in Blocks |-> FALSE]
    /\ status = [b \in Blocks |-> IF b = Genesis THEN "Accepted" ELSE "Processing"]
    /\ head = Genesis /\ tail = Genesis
    /\ preferredIDs = {}
    /\ pc = "idle" /\ votes = NoVotes /\ at = None
    /\ newPreferred = Genesis /\ onPreferredBranch = TRUE

Decided(b) == status[b] # "Processing" \/ Height[b] <= Height[head]
Processing(b) == b # head /\ b \in blocks

-----------------------------------------------------------------------------
(* Add *)

\* snowmanBlock.AddChild of p.
AddChild(p, b) ==
    /\ sb' = [sb EXCEPT ![p] = IF @ = NoSb THEN SbNew(b) ELSE SbAdd(@, b)]
    /\ children' = [children EXCEPT ![p] = @ \cup {b}]

\* Mutant: a new tip of the preferred branch is not preferred.
ExtendTailNever(p, b) == UNCHANGED <<tail, preferredIDs>>

ExtendTail(p, b) ==
    IF tail = p
    THEN tail' = b /\ preferredIDs' = preferredIDs \cup {b}
    ELSE UNCHANGED <<tail, preferredIDs>>

\* Add of a block whose parent is in the tree.
Issue(b) ==
    LET p == Parent[b]
    IN  /\ p \in blocks
        /\ AddChild(p, b)
        /\ blocks' = blocks \cup {b}
        /\ ExtendTail(p, b)
        /\ UNCHANGED <<shouldFalter, status, head>>

\* Add of a block whose parent was pruned: it is rejected.
IssueOrphan(b) ==
    /\ Parent[b] \notin blocks
    /\ status' = [status EXCEPT ![b] = "Rejected"]
    /\ UNCHANGED <<blocks, children, sb, shouldFalter, head, tail, preferredIDs>>

\* Callers add a block after its parent, so a parent that is not in the tree was
\* decided.  Adding a block that is decided or processing changes nothing.
Add(b) ==
    /\ pc = "idle"
    /\ ~Decided(b) /\ ~Processing(b)
    /\ Parent[b] \in blocks \/ status[Parent[b]] # "Processing"
    /\ Issue(b) \/ IssueOrphan(b)
    /\ UNCHANGED pollVars

-----------------------------------------------------------------------------
(* RecordPoll *)

\* The bag of votes that voteStack holds for p.
VoteBag(vs, p) == [c \in children[p] |-> Cardinality(VotesThrough(vs, c))]

\* The votes vs are valid.  With an empty voteStack the whole tree falters.
RecordPoll(vs, twice) ==
    /\ pc = "idle"
    /\ \E stack \in {OnStack(vs, blocks, twice)} :
          \/ \E top \in stack :
                /\ \A p \in stack : p = top \/ top \in Ancestors[p]
                /\ pc' = "vote" /\ votes' = vs /\ at' = top
                /\ newPreferred' = head
                /\ UNCHANGED shouldFalter
          \/ /\ stack = {}
             /\ shouldFalter' = [shouldFalter EXCEPT ![head] = TRUE]
             /\ pc' = "settle" /\ votes' = NoVotes /\ at' = None
             /\ newPreferred' = tail
    /\ onPreferredBranch' = TRUE
    /\ UNCHANGED <<blocks, children, sb, status, head, preferredIDs, tail>>

\* Mutant: only the siblings of the accepted block are rejected.
RejectedDirectly(p, pref) == children[p] \ {pref}

\* Mutant: what is below the accepted block is rejected too.
RejectedBelow(p, pref) == {b \in blocks \ {pref} : p \in Ancestors[b]}

\* rejectTransitively: the siblings of the accepted child pref of p, and all
\* blocks of the tree below them.
RejectedWith(p, pref) ==
    {b \in blocks : \E c \in children[p] \ {pref} : c = b \/ c \in Ancestors[b]}

\* Mutant: descendants of rejected siblings are dropped without being rejected.
AcceptSilently(p, pref) ==
    /\ status' = [b \in Blocks |-> IF b = pref THEN "Accepted"
                                   ELSE IF b \in children[p] THEN "Rejected" ELSE status[b]]
    /\ head' = pref
    /\ preferredIDs' = preferredIDs \ {pref}
    /\ blocks' = blocks \ (RejectedWith(p, pref) \cup {p})

\* acceptPreferredChild, and the removal of the old head p from the tree.
AcceptPreferredChild(p, pref) ==
    LET rejected == RejectedWith(p, pref)
    IN  /\ status' = [b \in Blocks |-> IF b = pref THEN "Accepted"
                                       ELSE IF b \in rejected THEN "Rejected" ELSE status[b]]
        /\ head' = pref
        /\ preferredIDs' = preferredIDs \ {pref}
        /\ blocks' = blocks \ (rejected \cup {p})

\* The blocks that may be next on voteStack, below p.
NextOnStack(p) == {c \in children[p] : Cardinality(VotesBelow(votes, c)) >= Alpha}

\* Mutant: any finalized instance accepts its preference.
AcceptsAnywhere(s, p) == SbFinalized(s)

\* Only accept when you are finalized and the head.
Accepts(s, p) == SbFinalized(s) /\ head = p

\* Mutant: a child that is voted on loses the falter of its parent.
FaltersUnlessNext(p, next, b) == b \in children[p] /\ b # next

\* Whether b must falter after the poll was recorded on p.
Falters(p, next, b) == b \in children[p] /\ (shouldFalter[p] \/ b # next)

\* One iteration of vote: the instance of p is left in state inst by the poll,
\* next is the block below p on voteStack or None.
VoteWith(p, next, inst) ==
    /\ IF Accepts(inst, p)
       THEN AcceptPreferredChild(p, SbPreference(inst))
       ELSE UNCHANGED <<status, head, preferredIDs, blocks>>
    /\ sb' = [b \in Blocks |-> IF b \notin blocks' THEN NoSb
                               ELSE IF b = p THEN inst ELSE sb[b]]
    /\ children' = [b \in Blocks |-> IF b \in blocks' THEN children[b] ELSE {}]
    /\ shouldFalter' =
           [b \in Blocks |-> /\ b \in blocks'
                             /\ (b # p /\ shouldFalter[b]) \/ Falters(p, next, b)]
    /\ newPreferred' = IF onPreferredBranch THEN SbPreference(inst) ELSE newPreferred
    /\ onPreferredBranch' = (onPreferredBranch /\ next = SbPreference(inst))
    /\ UNCHANGED tail

VoteOn(p, next) ==
    \E inst \in SbPolls(IF shouldFalter[p] THEN SbFalter(sb[p]) ELSE sb[p], VoteBag(votes, p)) :
        VoteWith(p, next, inst)

Vote ==
    /\ pc = "vote" /\ at \in blocks
    /\ \/ \E next \in NextOnStack(at) :
             VoteOn(at, next) /\ at' = next /\ UNCHANGED <<pc, votes>>
       \/ /\ NextOnStack(at) = {}
          /\ VoteOn(at, None) /\ at' = None /\ pc' = "settle" /\ votes' = NoVotes

\* The block on top of voteStack was rejected: the other votes are dropped.
VoteBreak ==
    /\ pc = "vote" /\ at \notin blocks
    /\ pc' = "settle" /\ at' = None /\ votes' = NoVotes
    /\ UNCHANGED <<treeVars, preferredIDs, tail, newPreferred, onPreferredBranch>>

\* The preference is kept, or the preferred branch is built anew: upwards from
\* newPreferred, then down along the preferences.
Keep ==
    /\ pc = "settle" /\ newPreferred \in preferredIDs
    /\ pc' = "idle"
    /\ UNCHANGED <<treeVars, preferredIDs, tail>>

Rebuild ==
    /\ pc = "settle" /\ newPreferred \notin preferredIDs
    /\ pc' = "walk"
    /\ tail' = newPreferred
    /\ preferredIDs' = {b \in blocks \ {head} : b = newPreferred \/ b \in Ancestors[newPreferred]}
    /\ UNCHANGED treeVars

\* Mutant: the preferences below the new preference are not followed.
WalkNot ==
    /\ pc = "walk" /\ pc' = "idle"
    /\ UNCHANGED <<treeVars, preferredIDs, tail>>

Walk ==
    /\ pc = "walk"
    /\ IF sb[tail] # NoSb
       THEN /\ tail' = SbPreference(sb[tail])
            /\ preferredIDs' = preferredIDs \cup {tail'}
            /\ UNCHANGED pc
       ELSE pc' = "idle" /\ UNCHANGED <<preferredIDs, tail>>
    /\ UNCHANGED treeVars

Settle ==
    /\ Keep \/ Rebuild \/ Walk
    /\ votes' = NoVotes /\ at' = None
    /\ newPreferred' = IF pc' = "idle" THEN Genesis ELSE newPreferred
    /\ onPreferredBranch' = TRUE

AnyVotes == {ValidVotes(vs, blocks, head) : vs \in [Slots -> Blocks \cup {None}]}

Next ==
    \/ \E b \in Blocks : Add(b)
    \/ \E vs \in AnyVotes : \E twice \in SUBSET CountedTwice(vs, blocks, head) : RecordPoll(vs, twice)
    \/ Vote
    \/ VoteBreak
    \/ Settle

Spec == Init /\ [][Next]_vars

\* Topological when no edge is counted twice: the order in which votes.List
\* returns the votes happens to put votes further down first.
OrderedNext ==
    \/ \E b \in Blocks : Add(b)
    \/ \E vs \in AnyVotes : RecordPoll(vs, {})
    \/ Vote
    \/ VoteBreak
    \/ Settle

OrderedSpec == Init /\ [][OrderedNext]_vars

-----------------------------------------------------------------------------
(* Properties *)

TypeOK ==
    /\ blocks \subseteq Blocks /\ head \in Blocks
    /\ children \in [Blocks -> SUBSET Blocks]
    /\ shouldFalter \in [Blocks -> BOOLEAN]
    /\ status \in [Blocks -> {"Processing", "Accepted", "Rejected"}]
    /\ preferredIDs \subseteq Blocks /\ tail \in Blocks
    /\ pc \in {"idle", "vote", "settle", "walk"}
    /\ votes \in [Slots -> Blocks \cup {None}] /\ at \in Blocks \cup {None}
    /\ newPreferred \in Blocks /\ onPreferredBranch \in BOOLEAN

\* The accepted blocks are exactly the last accepted block and its ancestors:
\* one chain, whatever forks were voted on.
AcceptedIsChain ==
    \A b \in Blocks : status[b] = "Accepted" <=> b = head \/ b \in Ancestors[head]

\* A block is rejected only if it conflicts with an accepted block: no block
\* that the accepted chain goes through, or that extends it, is ever rejected.
RejectedConflicts ==
    \A b \in Blocks : status[b] = "Rejected" =>
        b \notin Ancestors[head] \cup {head} /\ head \notin Ancestors[b]

\* The tree holds head and undecided blocks that extend it, each below its
\* parent, which knows it as a child.  Nothing below a rejected block survives.
TreeIsRooted ==
    /\ head \in blocks
    /\ \A b \in blocks \ {head} :
          status[b] = "Processing" /\ head \in Ancestors[b] /\ Parent[b] \in blocks
    /\ \A b \in blocks : children[b] = {c \in blocks \ {head} : Parent[c] = b}

\* Between polls the preferred blocks are the walk from head along the
\* preferences of the instances, and tail is its end.  RecordPoll relies on it
\* when it keeps tail because the new preference was preferred before.
PreferenceIsWalk ==
    pc = "idle" =>
        /\ preferredIDs \subseteq blocks \ {head}
        /\ tail \in preferredIDs \cup {head} /\ sb[tail] = NoSb
        /\ \A b \in (preferredIDs \cup {head}) \ {tail} :
              sb[b] # NoSb /\ SbPreference(sb[b]) \in preferredIDs
        /\ \A b \in preferredIDs :
              /\ Parent[b] \in preferredIDs \cup {head}
              /\ SbPreference(sb[Parent[b]]) = b

\* Whatever was counted, between polls tail is a leaf of the tree and the preferred
\* blocks are the way up from it: Preference never returns a decided block, and
\* RecordPoll never follows a block that is gone.
PreferenceInTree ==
    pc = "idle" =>
        /\ tail \in blocks /\ sb[tail] = NoSb
        /\ preferredIDs = {b \in blocks \ {head} : b = tail \/ b \in Ancestors[tail]}

\* A vote is recorded on an instance that exists, even when blocks were accepted
\* or rejected earlier in the same poll.
VoteHasInstance == pc = "vote" /\ at \in blocks => sb[at] # NoSb

\* Decisions are final, the last accepted block only moves to a child of it, and a
\* block leaves the tree only by a decision.
DecisionsFinal ==
    [][/\ \A b \in Blocks : status[b] # "Processing" => status'[b] = status[b]
       /\ head' # head => head' \in children[head]
       /\ \A b \in blocks \ blocks' : status'[b] # "Processing"]_vars

\* Topological keeps the promises of the Consensus interface: RecordPoll decides
\* block after block in its loop, and each time the VM and Topological agree on
\* what was accepted, what was rejected with it and what is left.
Snowman == INSTANCE SnowmanContract WITH
    processing <- blocks \ {head}, lastAccepted <- head,
    votes <- {votes[s] : s \in Slots} \ {None}
ImplementsSnowman == Snowman!Spec
=============================================================================
