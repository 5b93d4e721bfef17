---------------------------- MODULE ApprovalGate ----------------------------
(***************************************************************************)
(* The approval gate of a stacked pull request                              *)
(* (athanor/check_stacked_pr_approvals.py).  The gate reads the repository, *)
(* the pull request and its reviews with three calls and passes if two      *)
(* reviewers approve the head it has read.  Pushes, reviews and changes of  *)
(* the base go on between the calls.                                        *)
(***************************************************************************)
EXTENDS Integers, Sequences, FiniteSets

CONSTANTS
  Reviewer,
  Sha,          \* the commits a head may be
  MaxReviews,   \* bound on the reviews of a pull request
  PerPage,      \* reviews that one call returns (100)
  Rewind        \* whether a push may bring an earlier head back

ASSUME GateAssumption == MaxReviews \in Nat /\ PerPage \in Nat \ {0}

Base     == {"default", "feature"}
Position == {"APPROVED", "CHANGES_REQUESTED"}
Review   == [user : Reviewer, state : Position \cup {"COMMENTED"}, commit : Sha]
REQUIRED == 2

VARIABLES
  headSha,      \* head of the pull request
  baseRef,      \* its base
  reviews,      \* its reviews, oldest first
  seen,         \* the commits that have been head
  call,         \* the next call: "repo", "pr", "reviews", or "done"
  pr,           \* the pull request as it was read
  code          \* exit code of the gate, NoCode before
pull  == <<headSha, baseRef, reviews, seen>>
check == <<call, pr, code>>
reviewVars == <<pull, check>>

NoCode == -1
NoPr   == [head |-> "unread", base |-> "unread"]

-----------------------------------------------------------------------------
(* What one reviewer said of one commit, comments and dismissed reviews aside.*)
Said(rs, u, h) == {j \in DOMAIN rs : rs[j].user = u /\ rs[j].commit = h /\ rs[j].state \in Position}

(* Mutant: a request for changes does not replace an approval. *)
ApprovalsEver(rs, h) == {u \in Reviewer : \E j \in Said(rs, u, h) : rs[j].state = "APPROVED"}

(* Mutant: the first review of a reviewer stands. *)
ApprovalsFirst(rs, h) ==
  {u \in Reviewer : \E j \in Said(rs, u, h) :
     rs[j].state = "APPROVED" /\ \A k \in Said(rs, u, h) : k >= j}

(* approvals_at_head: whose last position on commit h approves. *)
ApprovalsAtHead(rs, h) ==
  {u \in Reviewer : \E j \in Said(rs, u, h) :
     rs[j].state = "APPROVED" /\ \A k \in Said(rs, u, h) : k <= j}

(* evaluate *)
Evaluate(p, rs) ==
  IF p.base = "default" THEN 0
  ELSE IF Cardinality(ApprovalsAtHead(rs, p.head)) >= REQUIRED THEN 0 ELSE 1

Page(rs) == SubSeq(rs, 1, IF Len(rs) < PerPage THEN Len(rs) ELSE PerPage)

ReviewInit == /\ headSha \in Sha /\ seen = {headSha} /\ baseRef \in Base /\ reviews = << >>
              /\ call = "repo" /\ pr = NoPr /\ code = NoCode

(* The three calls of main; an answer that fails or has no field is 2.      *)
Fails == call # "done" /\ call' = "done" /\ code' = 2 /\ UNCHANGED <<pull, pr>>

ReadRepo == call = "repo" /\ call' = "pr" /\ UNCHANGED <<pull, pr, code>>

ReadPr == /\ call = "pr" /\ call' = "reviews"
          /\ pr' = [head |-> headSha, base |-> baseRef]
          /\ UNCHANGED <<pull, code>>

ReadReviews == /\ call = "reviews" /\ call' = "done"
               /\ code' = Evaluate(pr, Page(reviews))
               /\ UNCHANGED <<pull, pr>>

(* The next event starts the workflow again. *)
Rerun == /\ call = "done" /\ call' = "repo" /\ pr' = NoPr /\ code' = NoCode
         /\ UNCHANGED pull

Push == /\ \E c \in Sha \ {headSha} : (c \in seen => Rewind) /\ headSha' = c /\ seen' = seen \cup {c}
        /\ UNCHANGED <<baseRef, reviews, check>>

Retarget == /\ baseRef' \in Base \ {baseRef} /\ UNCHANGED <<headSha, reviews, seen, check>>

Submit == /\ Len(reviews) < MaxReviews
          /\ \E r \in Review : r.commit = headSha /\ reviews' = Append(reviews, r)
          /\ UNCHANGED <<headSha, baseRef, seen, check>>

(* A review is dismissed: it stays in the list. *)
Dismiss == /\ \E j \in DOMAIN reviews :
                reviews[j].state \in Position /\ reviews' = [reviews EXCEPT ![j].state = "DISMISSED"]
           /\ UNCHANGED <<headSha, baseRef, seen, check>>

ReviewNext == Fails \/ ReadRepo \/ ReadPr \/ ReadReviews \/ Rerun
                \/ Push \/ Retarget \/ Submit \/ Dismiss

ReviewSpec == ReviewInit /\ [][ReviewNext]_reviewVars

-----------------------------------------------------------------------------
(* A reviewer stands behind the head if the last position he has taken, on  *)
(* whatever commit, approves it.                                            *)
Stands(u) ==
  \E j \in DOMAIN reviews :
    /\ reviews[j] = [user |-> u, state |-> "APPROVED", commit |-> headSha]
    /\ \A k \in j + 1 .. Len(reviews) : reviews[k].user = u => reviews[k].state \notin Position

Standing == {u \in Reviewer : Stands(u)}

(* When the gate passes a stacked pull request and the head is still the    *)
(* one it has read, two reviewers stand behind the head now, although the   *)
(* head may have moved away and reviews may have come between the calls     *)
(* (check_stacked_pr_approvals.py:24-29, 79-91).                            *)
PassIsEarned ==
  [][ReadReviews /\ code' = 0 /\ pr.base = "feature" /\ pr.head = headSha
       => Cardinality(Standing) >= REQUIRED]_reviewVars

(* And it refuses none that two reviewers stand behind                      *)
(* (check_stacked_pr_approvals.py:106-121).                                 *)
RefusalIsDue ==
  [][ReadReviews /\ code' = 1 /\ pr.head = headSha => Cardinality(Standing) < REQUIRED]_reviewVars
=============================================================================
