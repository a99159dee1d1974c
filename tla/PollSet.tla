------------------------------ MODULE PollSet ------------------------------
(***************************************************************************)
(* The set of outstanding network polls of the Snowman engine              *)
(* (snow/consensus/snowman/poll): set.go over earlyTermNoTraversalPoll.    *)
(*                                                                         *)
(* A query is sent to a sample of K validators, drawn with repetition, so  *)
(* the code keeps a bag of polled node IDs and a bag of votes.  Here the   *)
(* sample is K slots: slot s was drawn as validator sample[s], it is       *)
(* outstanding (s \in polled), answered (votes[s] is a block) or dropped   *)
(* (neither).  The two bags of the code are the slots still polled counted *)
(* by validator, and the answered slots counted by block.                  *)
(***************************************************************************)
EXTENDS Integers, Sequences, FiniteSets, Functions

CONSTANTS
    RequestIDs,   \* the request IDs the engine may use
    Validators,   \* node IDs
    Blocks,       \* block IDs that may be voted for
    Descends,     \* <<d, a>> \in Descends: block d is a or descends from a
    Samples,      \* the samples that Validators.Sample(K) may return
    K,            \* size of a sample
    Alpha,        \* votes needed for a successful poll
    NoVote,       \* not a block: the slot has no answer
    MaxPolls      \* bound on the number of polls ever added

\* Parameters.Verify (snowball/parameters.go) rejects Alpha <= K/2 and K < Alpha.
ASSUME ParameterAssumption ==
    /\ K \in Nat \ {0} /\ Alpha \in Nat
    /\ 2 * Alpha > K /\ Alpha <= K
ASSUME PollAssumption ==
    /\ Samples \subseteq [1..K -> Validators]
    /\ NoVote \notin Blocks
    /\ Descends \subseteq Blocks \X Blocks
    /\ MaxPolls \in Nat

Slots == 1..K

VARIABLES
    polls,     \* linkedhashmap of requestID -> poll, oldest first
    results,   \* history: the polls whose result was returned, in that order
    added      \* history: the request IDs that Add accepted, in that order

vars == <<polls, results, added>>

Poll == [id     : RequestIDs,
         sample : [Slots -> Validators],
         polled : SUBSET Slots,
         votes  : [Slots -> Blocks \cup {NoVote}]]

TypeOK ==
    /\ polls \in Seq(Poll)
    /\ results \in Seq(Poll)
    /\ added \in Seq(RequestIDs)

IdsOf(ps) == [i \in DOMAIN ps |-> ps[i].id]

-----------------------------------------------------------------------------
(* One poll: early_term_no_traversal.go *)

NewPoll(id, sample) ==
    [id |-> id, sample |-> sample, polled |-> Slots,
     votes |-> [s \in Slots |-> NoVote]]

SlotsOf(p, vdr) == {s \in p.polled : p.sample[s] = vdr}

\* A validator that already answered is counted again.
PollVoteCountsTwice(p, vdr, vote) ==
    [p EXCEPT !.polled = @ \ SlotsOf(p, vdr),
              !.votes  = [s \in Slots |-> IF p.sample[s] = vdr THEN vote
                                                               ELSE @[s]]]

PollVote(p, vdr, vote) ==
    [p EXCEPT !.polled = @ \ SlotsOf(p, vdr),
              !.votes  = [s \in Slots |-> IF s \in SlotsOf(p, vdr) THEN vote
                                                                   ELSE @[s]]]

PollDrop(p, vdr) == [p EXCEPT !.polled = @ \ SlotsOf(p, vdr)]

Received(p) == {s \in Slots : p.votes[s] # NoVote}
VotesFor(p, b) == {s \in Slots : p.votes[s] = b}

\* Off by one in the third case: a poll ends before a majority is reached.
FinishedEarly(p) ==
    \/ p.polled = {}
    \/ Cardinality(Received(p)) + Cardinality(p.polled) < Alpha
    \/ \E b \in Blocks : Cardinality(VotesFor(p, b)) >= Alpha - 1

\* A poll that nobody is left to answer waits for a majority.
FinishedByMajority(p) ==
    \/ Cardinality(Received(p)) + Cardinality(p.polled) < Alpha
    \/ \E b \in Blocks : Cardinality(VotesFor(p, b)) >= Alpha

Finished(p) ==
    \/ p.polled = {}
    \/ Cardinality(Received(p)) + Cardinality(p.polled) < Alpha
    \/ \E b \in Blocks : Cardinality(VotesFor(p, b)) >= Alpha

-----------------------------------------------------------------------------
(* The set of polls: set.go *)

\* Every finished poll is taken out, the ones behind an unfinished poll too.
processFinishedPollsUnordered(ps) ==
    /\ polls' = SelectSeq(ps, LAMBDA p : ~Finished(p))
    /\ results' = results \o SelectSeq(ps, Finished)

\* Only the oldest finished poll is taken out.
processFinishedPollsOne(ps) ==
    LET n == IF Finished(Head(ps)) THEN 1 ELSE 0
    IN  /\ polls' = SubSeq(ps, n+1, Len(ps))
        /\ results' = results \o SubSeq(ps, 1, n)

\* processFinishedPolls over the polls ps: from the oldest on, while finished.
processFinishedPolls(ps) ==
    \E n \in 0..Len(ps) :
        /\ \A i \in 1..n : Finished(ps[i])
        /\ n < Len(ps) => ~Finished(ps[n+1])
        /\ polls' = SubSeq(ps, n+1, Len(ps))
        /\ results' = results \o SubSeq(ps, 1, n)

Init ==
    /\ polls = <<>>
    /\ results = <<>>
    /\ added = <<>>

\* Add(requestID, vdrs): a request ID that is outstanding is refused.
Add(id, sample) ==
    /\ Len(added) < MaxPolls
    /\ id \notin Range(IdsOf(polls))
    /\ polls' = Append(polls, NewPoll(id, sample))
    /\ added' = Append(added, id)
    /\ UNCHANGED results

\* The poll at position i has taken an answer and is now p.
Respond(i, p) ==
    LET ps == [polls EXCEPT ![i] = p]
    IN  /\ IF Finished(p)
           THEN processFinishedPolls(ps)
           ELSE polls' = ps /\ UNCHANGED results
        /\ UNCHANGED added

\* Vote(requestID, vdr, vote): chits arrived, for a poll that may be gone, from
\* a node that may not be polled or may have answered before.
Vote(id, vdr, vote) ==
    \E i \in DOMAIN polls :
        /\ polls[i].id = id
        /\ Respond(i, PollVote(polls[i], vdr, vote))

\* Drop(requestID, vdr): the query to vdr failed or timed out.
Drop(id, vdr) ==
    \E i \in DOMAIN polls :
        /\ polls[i].id = id
        /\ Respond(i, PollDrop(polls[i], vdr))

Next ==
    \E id \in RequestIDs :
        \/ \E sample \in Samples : Add(id, sample)
        \/ \E vdr \in Validators :
              \/ \E vote \in Blocks : Vote(id, vdr, vote)
              \/ Drop(id, vdr)

Spec == Init /\ [][Next]_vars

\* vdr still owes an answer to the query id, and answers it or fails.  The
\* engine registers a timeout with every query it sends, so each polled
\* validator ends in Chits or QueryFailed.
Answer(id, vdr) ==
    /\ \E i \in DOMAIN polls : polls[i].id = id /\ SlotsOf(polls[i], vdr) # {}
    /\ (\E vote \in Blocks : Vote(id, vdr, vote)) \/ Drop(id, vdr)

FairSpec ==
    Spec /\ \A id \in RequestIDs, vdr \in Validators : WF_vars(Answer(id, vdr))

-----------------------------------------------------------------------------
(* Properties *)

\* The results are handed to consensus in the order in which the polls were
\* issued, each poll exactly once and none lost: the returned polls followed by
\* the outstanding ones are the polls that Add accepted.  (set.go iterates from
\* oldest to newest and stops at the first poll that has not finished.)
ResultsInIssueOrder == IdsOf(results) \o IdsOf(polls) = added

\* No finished poll waits at the front of the set.  A poll is only looked at
\* when an answer to some poll arrives, so a finished poll left at the front
\* with nothing outstanding would never be returned.
OldestUnfinished == polls # <<>> => ~Finished(Head(polls))

\* The slots that support block b when the answers are f: votes for b itself and
\* for its descendants (Topological.RecordPoll applies votes transitively).
Support(f, b) == {s \in Slots : <<f[s], b>> \in Descends}
Majority(f) == {b \in Blocks : Cardinality(Support(f, b)) >= Alpha}

\* What the answers of poll p may still become once it is finished: every slot
\* that is outstanding gets some vote or none.
Completions(p) ==
    {f \in [Slots -> Blocks \cup {NoVote}] :
        \A s \in Slots \ p.polled : f[s] = p.votes[s]}

\* Early termination is sound: when a poll is returned, no answers of the
\* validators that have not answered could have changed which blocks have a
\* transitive alpha majority ("finishes when any remaining validators can't
\* change the result of the poll").
EarlyTerminationSound ==
    \A i \in DOMAIN results : \A f \in Completions(results[i]) :
        Majority(f) = Majority(results[i].votes)

\* Poll q is poll p at a later time: the answers counted in p are in q.
Continues(p, q) ==
    /\ q.id = p.id /\ q.sample = p.sample
    /\ q.polled \subseteq p.polled
    /\ \A s \in Slots \ p.polled : q.votes[s] = p.votes[s]

\* A validator votes once: an answer that was counted is never revised or
\* withdrawn while the poll is outstanding, whatever arrives later.
AnswersKept ==
    \A i \in DOMAIN polls :
        \E q \in Range(polls') \cup Range(results') : Continues(polls[i], q)
AnswersFinal == [][AnswersKept]_vars

\* Every poll is eventually returned: no poll waits for ever, neither for a
\* validator nor behind another poll.
EveryPollReturns ==
    \A n \in 1..MaxPolls : Len(added) >= n ~> Len(results) >= n
=============================================================================
