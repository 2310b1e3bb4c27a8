---------------------------- MODULE ProposalsProofs ----------------------------
(***************************************************************************)
(* The proposals index never claims what git does not have, for any number *)
(* of proposals and researchers, whatever is edited, merged by hand, left  *)
(* in conflict or killed.  Git is written first in every command, so the   *)
(* argument follows the rows back to it: a known proposal has its branch,  *)
(* a merged one is known, an approve about to write its row has its merge. *)
(***************************************************************************)
EXTENDS Proposals, TLAPS

\* A row is the last thing open_proposal writes.
RowIsLast ==
  /\ \A p \in Proposals : Known(p) => opening[p] = "done"
  /\ \A p \in Proposals : opening[p] \in {"create_proposal", "done"} => tip[p] > 0
  /\ \A p \in Proposals : base[p] <= Len(main)

\* Git merges nothing but proposals that have a row.
MergedAreKnown ==
  /\ \A p \in Proposals : MergesOf(p) # {} => Known(p)
  /\ unfinished # Nobody => Known(unfinished)
  /\ \A r \in Researchers : pc[r] # "idle" => on[r] \in Proposals /\ Known(on[r])

\* Past its merge an approve has something to record.
MergeInHand ==
  \A r \in Researchers :
    /\ pc[r] \in {"rev_parse", "decide"} => MergesOf(on[r]) # {}
    /\ pc[r] = "decide" => head[r] \in 1..Len(main)

IInv ==
  /\ TypeOK /\ RowIsLast /\ MergedAreKnown /\ MergeInHand
  /\ ApprovedIsMerged /\ MergedIsRecorded

-----------------------------------------------------------------------------
LEMMA InitIInv == Init => IInv
<1> SUFFICES ASSUME Init PROVE IInv
  OBVIOUS
<1>1. TypeOK
  BY ProposalsAssumption DEF Init, TypeOK, Statuses, NoCommit
<1>2. \A p \in Proposals : MergesOf(p) = {} /\ ~Known(p)
  BY DEF Init, MergesOf, Known
<1>3. RowIsLast
  BY <1>2 DEF Init, RowIsLast
<1>4. MergedAreKnown /\ MergeInHand
  BY <1>2 DEF Init, MergedAreKnown, MergeInHand
<1>5. ApprovedIsMerged /\ MergedIsRecorded
  BY <1>2 DEF Init, ApprovedIsMerged, MergedIsRecorded, Approvals
<1> QED
  BY <1>1, <1>3, <1>4, <1>5 DEF IInv

\* A merge commit of p is one more merge of p, and changes no other proposal's.
LEMMA MergeAppends ==
  ASSUME TypeOK, NEW p \in Proposals, tip[p] > 0, Merge(p)
  PROVE  /\ main' \in Seq([proposal : Proposals, upTo : 1..MaxCommits])
         /\ Len(main') = Len(main) + 1
         /\ MergesOf(p)' # {}
         /\ \A q \in Proposals : MergesOf(q) \subseteq MergesOf(q)'
         /\ \A q \in Proposals \ {p} : MergesOf(q)' = MergesOf(q)
<1> DEFINE c == [proposal |-> p, upTo |-> tip[p]]
           Commits == [proposal : Proposals, upTo : 1..MaxCommits]
<1>1. c \in Commits
  BY ProposalsAssumption DEF TypeOK
<1>2. main' = Append(main, c) /\ main \in Seq(Commits)
  BY DEF Merge, TypeOK
<1> HIDE DEF c
<1>3. /\ main' \in Seq(Commits) /\ Len(main') = Len(main) + 1 /\ Len(main) \in Nat
      /\ main'[Len(main) + 1] = c
      /\ \A i \in 1..Len(main) : main'[i] = main[i]
  BY <1>1, <1>2
<1>4. c.proposal = p
  BY DEF c
<1>5. Len(main) + 1 \in MergesOf(p)'
  BY <1>3, <1>4 DEF MergesOf
<1>6. \A q \in Proposals : MergesOf(q) \subseteq MergesOf(q)'
  BY <1>3 DEF MergesOf
<1>7. ASSUME NEW q \in Proposals \ {p}, NEW i \in MergesOf(q)'
      PROVE  i \in MergesOf(q)
  <2>1. i \in 1..(Len(main) + 1) /\ main'[i].proposal = q
    BY <1>3 DEF MergesOf
  <2>2. i # Len(main) + 1
    BY <2>1, <1>3, <1>4
  <2> QED
    BY <2>1, <2>2, <1>3 DEF MergesOf
<1> QED
  BY <1>3, <1>5, <1>6, <1>7

-----------------------------------------------------------------------------
(***************************************************************************)
(* The steps of open_proposal and the edits of a branch.                   *)
(***************************************************************************)
LEMMA OpenKeeps ==
  ASSUME IInv, NEW p \in Proposals, OpenProposal(p) \/ EditBranch(p) \/ KillOpen(p)
  PROVE  IInv'
<1> USE DEF IInv, git, command
<1>1. main' = main /\ unfinished' = unfinished /\ UNCHANGED command
      /\ unrecorded' = unrecorded
  BY DEF OpenProposal, EditBranch, KillOpen, ReadBase, WriteBranch, CreateRow
<1>2. \A q \in Proposals : MergesOf(q)' = MergesOf(q)
  BY <1>1 DEF MergesOf
<1>3. Len(main) \in Nat
  BY DEF TypeOK
<1>4. TypeOK' /\ RowIsLast'
  <2>1. CASE ReadBase(p)
    BY <2>1, <1>1, <1>3 DEF ReadBase, TypeOK, RowIsLast, Known
  <2>2. CASE WriteBranch(p)
    BY <2>2, <1>1, ProposalsAssumption DEF WriteBranch, TypeOK, RowIsLast, Known
  <2>3. CASE CreateRow(p)
    BY <2>3, <1>1 DEF CreateRow, TypeOK, RowIsLast, Known, Statuses, NoCommit
  <2>4. CASE EditBranch(p)
    BY <2>4, <1>1, ProposalsAssumption DEF EditBranch, TypeOK, RowIsLast, Known
  <2>5. CASE KillOpen(p)
    BY <2>5, <1>1 DEF KillOpen, TypeOK, RowIsLast, Known
  <2> QED
    BY <2>1, <2>2, <2>3, <2>4, <2>5 DEF OpenProposal
<1>5. \/ rows' = rows
      \/ ~Known(p) /\ rows' = [rows EXCEPT ![p] = [status |-> "proposed", sha |-> NoCommit]]
  BY DEF OpenProposal, EditBranch, KillOpen, ReadBase, WriteBranch, CreateRow, RowIsLast
<1>6. /\ \A q \in Proposals : Known(q) => rows'[q] = rows[q]
      /\ \A q \in Proposals : ~Known(q) => ~Known(q)' \/ rows'[q].status = "proposed"
  <2>1. CASE rows' = rows
    BY <2>1 DEF Known
  <2>2. CASE ~Known(p) /\ rows' = [rows EXCEPT ![p] = [status |-> "proposed", sha |-> NoCommit]]
    <3>1. rows'[p].status = "proposed" /\ \A q \in Proposals \ {p} : rows'[q] = rows[q]
      BY <2>2 DEF TypeOK
    <3> QED
      BY <2>2, <3>1 DEF Known
  <2> QED
    BY <1>5, <2>1, <2>2
<1>7. MergedAreKnown'
  <2>1. \A q \in Proposals : Known(q) => Known(q)'
    BY <1>6 DEF Known
  <2>2. unfinished # Nobody => unfinished \in Proposals /\ Known(unfinished)
    BY DEF TypeOK, MergedAreKnown
  <2>3. unfinished' # Nobody => Known(unfinished)'
    BY <1>1, <2>1, <2>2 DEF Known
  <2>4. \A r \in Researchers : pc'[r] # "idle" => on'[r] \in Proposals /\ Known(on[r])'
    BY <1>1, <2>1 DEF MergedAreKnown, Known
  <2> QED
    BY <1>2, <2>1, <2>3, <2>4 DEF MergedAreKnown
<1>8. MergeInHand'
  BY <1>1, <1>2, <1>6 DEF MergeInHand, MergedAreKnown
<1>9. ApprovedIsMerged'
  BY <1>1, <1>2, <1>6 DEF ApprovedIsMerged, Approvals, Known
<1>10. MergedIsRecorded'
  BY <1>1, <1>2, <1>6 DEF MergedIsRecorded, MergedAreKnown, Known
<1> QED
  BY <1>4, <1>7, <1>8, <1>9, <1>10

(***************************************************************************)
(* The commands of a researcher that leave rows and git alone.             *)
(***************************************************************************)
LEMMA LookingKeeps ==
  ASSUME IInv, NEW r \in Researchers,
         \/ \E p \in Proposals : Approve(r, p)
         \/ CountCommits(r) \/ CheckoutFails(r) \/ MergeNothing(r) \/ MergeConflicts(r)
         \/ ReadHead(r) \/ KillApprove(r)
  PROVE  IInv'
<1> USE DEF IInv, git, command
<1>1. UNCHANGED <<main, tip, base, rows, opening>>
  BY DEF Approve, CountCommits, CheckoutFails, MergeNothing, MergeConflicts, ReadHead,
         KillApprove
<1>2. /\ \A q \in Proposals : MergesOf(q)' = MergesOf(q)
      /\ \A q \in Proposals : Known(q)' <=> Known(q)
      /\ Len(main) \in Nat
  BY <1>1 DEF MergesOf, Known, TypeOK
<1>3. \A s \in Researchers \ {r} :
        pc'[s] = pc[s] /\ on'[s] = on[s] /\ edited'[s] = edited[s] /\ head'[s] = head[s]
  BY DEF Approve, CountCommits, CheckoutFails, MergeNothing, MergeConflicts, ReadHead,
         KillApprove, Goto, Finish, TypeOK
<1>4. TypeOK'
  <2>1. CASE \E p \in Proposals : Approve(r, p)
    BY <2>1 DEF Approve, Goto, TypeOK
  <2>2. CASE CountCommits(r)
    BY <2>2 DEF CountCommits, Goto, TypeOK
  <2>3. CASE CheckoutFails(r)
    BY <2>3 DEF CheckoutFails, Finish, Goto, TypeOK, NoCommit
  <2>4. CASE MergeNothing(r)
    BY <2>4 DEF MergeNothing, Goto, TypeOK
  <2>5. CASE MergeConflicts(r)
    BY <2>5 DEF MergeConflicts, Finish, Goto, TypeOK, NoCommit
  <2>6. CASE ReadHead(r)
    BY <2>6, <1>2 DEF ReadHead, Goto, TypeOK
  <2>7. CASE KillApprove(r)
    <3>1. unrecorded' \subseteq Proposals
      BY <2>7 DEF KillApprove, TypeOK, MergedAreKnown
    <3> QED
      BY <2>7, <3>1 DEF KillApprove, Finish, Goto, TypeOK, NoCommit
  <2> QED
    BY <2>1, <2>2, <2>3, <2>4, <2>5, <2>6, <2>7
<1>5. RowIsLast'
  BY <1>1, <1>2 DEF RowIsLast
<1>6. pc'[r] # "idle" => on'[r] \in Proposals /\ Known(on'[r])
  BY DEF Approve, CountCommits, CheckoutFails, MergeNothing, MergeConflicts, ReadHead,
         KillApprove, Goto, Finish, TypeOK, MergedAreKnown
<1>7. unfinished' # Nobody => unfinished' \in Proposals /\ Known(unfinished')
  BY DEF Approve, CountCommits, CheckoutFails, MergeNothing, MergeConflicts, ReadHead,
         KillApprove, TypeOK, MergedAreKnown
<1>8. MergedAreKnown'
  BY <1>1, <1>2, <1>3, <1>6, <1>7 DEF MergedAreKnown, Known
<1>9. /\ pc'[r] \in {"rev_parse", "decide"} => on'[r] = on[r] /\ MergesOf(on[r]) # {}
      /\ pc'[r] = "decide" => head'[r] \in 1..Len(main)
  <2>1. CASE MergeNothing(r)
    BY <2>1 DEF MergeNothing, Goto, TypeOK, UpToDate
  <2>2. CASE ReadHead(r)
    <3>1. MergesOf(on[r]) # {} /\ on'[r] = on[r] /\ pc'[r] = "decide" /\ head'[r] = Len(main)
      BY <2>2 DEF ReadHead, Goto, TypeOK, MergeInHand
    <3>2. Len(main) \in 1..Len(main)
      BY <1>2, <3>1 DEF MergesOf
    <3> QED
      BY <3>1, <3>2
  <2>3. CASE ~(MergeNothing(r) \/ ReadHead(r))
    BY <2>3 DEF Approve, CountCommits, CheckoutFails, MergeConflicts, KillApprove, Goto,
           Finish, TypeOK
  <2> QED
    BY <2>1, <2>2, <2>3
<1>10. MergeInHand'
  BY <1>1, <1>3, <1>9 DEF MergeInHand, MergesOf
<1>11. ApprovedIsMerged'
  BY <1>1, <1>2 DEF ApprovedIsMerged
<1>12. MergedIsRecorded'
  <2> SUFFICES ASSUME NEW p \in Proposals, MergesOf(p) # {}, rows[p].status = "proposed",
                      p \notin unrecorded'
               PROVE  \E s \in Researchers : on'[s] = p /\ pc'[s] \in {"rev_parse", "decide"}
    BY <1>1, <1>2 DEF MergedIsRecorded
  <2>1. unrecorded \subseteq unrecorded'
    BY DEF Approve, CountCommits, CheckoutFails, MergeNothing, MergeConflicts, ReadHead,
           KillApprove
  <2>2. PICK s \in Researchers : on[s] = p /\ pc[s] \in {"rev_parse", "decide"}
    BY <2>1 DEF MergedIsRecorded
  <2>3. s # r => on'[s] = p /\ pc'[s] \in {"rev_parse", "decide"}
    BY <1>3, <2>2
  <2>4. s = r => ReadHead(r) \/ KillApprove(r)
    BY <2>2 DEF Approve, CountCommits, CheckoutFails, MergeNothing, MergeConflicts
  <2>5. ~(s = r /\ KillApprove(r))
    BY <2>2 DEF KillApprove
  <2>6. s = r => on'[r] = p /\ pc'[r] = "decide"
    BY <2>2, <2>4, <2>5 DEF ReadHead, Goto, TypeOK
  <2> QED
    BY <2>3, <2>6
<1> QED
  BY <1>4, <1>5, <1>8, <1>10, <1>11, <1>12

(***************************************************************************)
(* Merges, by approve or by hand.                                          *)
(***************************************************************************)
LEMMA MergeBranchKeeps ==
  ASSUME IInv, NEW r \in Researchers, MergeBranch(r)
  PROVE  IInv'
<1> USE DEF IInv
<1>1. /\ on[r] \in Proposals /\ Known(on[r]) /\ tip[on[r]] > 0 /\ Merge(on[r])
      /\ pc[r] = "merge" /\ pc' = [pc EXCEPT ![r] = "rev_parse"]
      /\ UNCHANGED <<tip, unfinished, base, rows, opening, on, edited, head, unrecorded>>
  BY DEF MergeBranch, Goto, MergedAreKnown, RowIsLast
<1>2. /\ main' \in Seq([proposal : Proposals, upTo : 1..MaxCommits])
      /\ Len(main') = Len(main) + 1 /\ Len(main) \in Nat
      /\ MergesOf(on[r])' # {}
      /\ \A q \in Proposals : MergesOf(q) \subseteq MergesOf(q)'
      /\ \A q \in Proposals \ {on[r]} : MergesOf(q)' = MergesOf(q)
  <2>1. Len(main) \in Nat
    BY DEF TypeOK
  <2> QED
    BY <1>1, <2>1, MergeAppends
<1>3. TypeOK'
  BY <1>1, <1>2 DEF TypeOK
<1>4. RowIsLast'
  BY <1>1, <1>2 DEF RowIsLast, Known, TypeOK
<1>5. MergedAreKnown'
  BY <1>1, <1>2 DEF MergedAreKnown, Known, TypeOK
<1>6. MergeInHand'
  <2> SUFFICES ASSUME NEW s \in Researchers
               PROVE  /\ pc'[s] \in {"rev_parse", "decide"} => MergesOf(on[s])' # {}
                      /\ pc'[s] = "decide" => head[s] \in 1..Len(main')
    BY <1>1 DEF MergeInHand, MergesOf
  <2>1. CASE s = r
    BY <2>1, <1>1, <1>2 DEF TypeOK
  <2>2. CASE s # r
    <3>1. pc'[s] = pc[s]
      BY <2>2, <1>1 DEF TypeOK
    <3>2. pc[s] \in {"rev_parse", "decide"} => on[s] \in Proposals /\ MergesOf(on[s]) # {}
      BY DEF MergeInHand, MergedAreKnown
    <3>3. pc[s] = "decide" => head[s] \in 1..Len(main)
      BY DEF MergeInHand
    <3>4. 1..Len(main) \subseteq 1..Len(main')
      BY <1>2
    <3>5. on[s] \in Proposals => MergesOf(on[s]) \subseteq MergesOf(on[s])'
      BY <1>1, <1>2 DEF MergesOf
    <3> QED
      BY <3>1, <3>2, <3>3, <3>4, <3>5
  <2> QED
    BY <2>1, <2>2
<1>7. ApprovedIsMerged'
  <2>1. \A p \in Proposals : rows[p].status \in Approvals =>
          MergesOf(p)' # {} /\ rows[p].sha \in 1..Len(main')
    BY <1>2 DEF ApprovedIsMerged
  <2> QED
    BY <1>1, <2>1 DEF ApprovedIsMerged
<1>8. MergedIsRecorded'
  <2>1. pc'[r] = "rev_parse" /\ on'[r] = on[r] /\ \A s \in Researchers \ {r} : pc'[s] = pc[s]
    BY <1>1 DEF TypeOK
  <2>2. \A s \in Researchers : pc[s] \in {"rev_parse", "decide"} => pc'[s] = pc[s]
    BY <1>1, <2>1
  <2>3. ASSUME NEW p \in Proposals \ {on[r]}, MergesOf(p)' # {}, rows[p].status = "proposed",
               p \notin unrecorded
        PROVE  \E s \in Researchers : on'[s] = p /\ pc'[s] \in {"rev_parse", "decide"}
    BY <2>2, <2>3, <1>1, <1>2 DEF MergedIsRecorded
  <2> QED
    BY <1>1, <2>1, <2>3 DEF MergedIsRecorded
<1> QED
  BY <1>3, <1>4, <1>5, <1>6, <1>7, <1>8

\* git commit and git merge --abort: the row of the proposal is left behind, and noted.
LEMMA ByHandKeeps ==
  ASSUME IInv, AbortMerge \/ CommitResolution
  PROVE  IInv'
<1> USE DEF IInv, command
<1>1. CASE AbortMerge
  <2>1. \A q \in Proposals : MergesOf(q)' = MergesOf(q) /\ Known(q)' = Known(q)
    BY <1>1 DEF AbortMerge, MergesOf, Known
  <2>2. TypeOK' /\ RowIsLast'
    BY <1>1 DEF AbortMerge, TypeOK, RowIsLast, Known
  <2>3. MergedAreKnown'
    BY <1>1, <2>1 DEF AbortMerge, MergedAreKnown, Known
  <2>4. MergeInHand' /\ ApprovedIsMerged' /\ MergedIsRecorded'
    BY <1>1, <2>1 DEF AbortMerge, MergeInHand, ApprovedIsMerged, MergedIsRecorded, MergesOf
  <2> QED
    BY <2>2, <2>3, <2>4
<1>2. CASE CommitResolution
  <2>1. /\ unfinished \in Proposals /\ Known(unfinished) /\ tip[unfinished] > 0
        /\ Merge(unfinished)
        /\ unfinished' = Nobody /\ unrecorded' = unrecorded \union {unfinished}
        /\ UNCHANGED <<tip, base, rows, opening, pc, on, edited, head>>
    BY <1>2 DEF CommitResolution, MergedAreKnown, RowIsLast, TypeOK
  <2>2. /\ main' \in Seq([proposal : Proposals, upTo : 1..MaxCommits])
        /\ Len(main') = Len(main) + 1 /\ Len(main) \in Nat
        /\ \A q \in Proposals : MergesOf(q) \subseteq MergesOf(q)'
        /\ \A q \in Proposals \ {unfinished} : MergesOf(q)' = MergesOf(q)
    <3>1. Len(main) \in Nat
      BY DEF TypeOK
    <3> QED
      BY <2>1, <3>1, MergeAppends
  <2>3. TypeOK' /\ RowIsLast'
    <3>1. TypeOK'
      BY <2>1, <2>2 DEF TypeOK
    <3>2. \A q \in Proposals : base[q] <= Len(main')
      BY <2>2 DEF TypeOK, RowIsLast
    <3>3. RowIsLast'
      BY <2>1, <3>2 DEF RowIsLast, Known
    <3> QED
      BY <3>1, <3>3
  <2>4. MergedAreKnown'
    BY <2>1, <2>2 DEF MergedAreKnown, Known
  <2>5. MergeInHand'
    <3> SUFFICES ASSUME NEW s \in Researchers
                 PROVE  /\ pc[s] \in {"rev_parse", "decide"} => MergesOf(on[s])' # {}
                        /\ pc[s] = "decide" => head[s] \in 1..Len(main')
      BY <2>1 DEF MergeInHand, MergesOf
    <3>1. pc[s] \in {"rev_parse", "decide"} => on[s] \in Proposals /\ MergesOf(on[s]) # {}
      BY DEF MergeInHand, MergedAreKnown
    <3>2. pc[s] = "decide" => head[s] \in 1..Len(main)
      BY DEF MergeInHand
    <3>3. 1..Len(main) \subseteq 1..Len(main')
      BY <2>2
    <3>4. on[s] \in Proposals => MergesOf(on[s]) \subseteq MergesOf(on[s])'
      BY <2>1, <2>2 DEF MergesOf
    <3> QED
      BY <3>1, <3>2, <3>3, <3>4
  <2>6. ApprovedIsMerged'
    <3>1. \A p \in Proposals : rows[p].status \in Approvals =>
            MergesOf(p)' # {} /\ rows[p].sha \in 1..Len(main')
      BY <2>2 DEF ApprovedIsMerged
    <3> QED
      BY <2>1, <3>1 DEF ApprovedIsMerged
  <2>7. MergedIsRecorded'
    BY <2>1, <2>2 DEF MergedIsRecorded
  <2> QED
    BY <2>3, <2>4, <2>5, <2>6, <2>7
<1> QED
  BY <1>1, <1>2

-----------------------------------------------------------------------------
(***************************************************************************)
(* Decisions.                                                              *)
(***************************************************************************)
LEMMA RecordApprovalKeeps ==
  ASSUME IInv, NEW r \in Researchers, NEW p \in Proposals, p = on[r], RecordApproval(r)
  PROVE  IInv'
<1> USE DEF IInv, git
<1>1. /\ Known(p) /\ MergesOf(p) # {} /\ head[r] \in 1..Len(main)
      /\ Len(main) \in Nat
  BY DEF RecordApproval, MergedAreKnown, MergeInHand, TypeOK
<1>2. /\ rows'[p].status \in Approvals /\ rows'[p].sha = head[r]
      /\ \A q \in Proposals \ {p} : rows'[q] = rows[q]
      /\ rows' \in [Proposals -> [status : Statuses, sha : Nat]]
  BY <1>1 DEF RecordApproval, Approvals, Statuses, TypeOK
<1>3. /\ UNCHANGED <<git, base, opening>>
      /\ unrecorded' = unrecorded \ {p}
      /\ pc' = [pc EXCEPT ![r] = "idle"]
      /\ pc'[r] = "idle"
      /\ \A s \in Researchers \ {r} :
           pc'[s] = pc[s] /\ on'[s] = on[s] /\ head'[s] = head[s]
  BY DEF RecordApproval, Finish, Goto, TypeOK
<1>4. TypeOK'
  BY <1>2, <1>3 DEF TypeOK, RecordApproval, Finish, NoCommit
<1>5. /\ \A q \in Proposals : MergesOf(q)' = MergesOf(q)
      /\ \A q \in Proposals : Known(q)' <=> Known(q)
  <2>1. Known(p)'
    BY <1>2 DEF Known, Approvals
  <2> QED
    BY <1>1, <1>2, <1>3, <2>1 DEF MergesOf, Known
<1>6. RowIsLast'
  BY <1>3, <1>5 DEF RowIsLast
<1>7. MergedAreKnown'
  <2>1. unfinished' # Nobody => unfinished' \in Proposals /\ Known(unfinished)
    BY <1>3 DEF MergedAreKnown, TypeOK
  <2>2. unfinished' # Nobody => Known(unfinished)'
    BY <1>3, <1>5, <2>1 DEF Known
  <2>3. ASSUME NEW s \in Researchers, pc'[s] # "idle"
        PROVE  on'[s] \in Proposals /\ Known(on[s])'
    <3>1. s # r /\ on'[s] = on[s] /\ pc[s] # "idle"
      BY <1>3, <2>3
    <3> QED
      BY <1>5, <3>1 DEF MergedAreKnown, Known
  <2> QED
    BY <1>5, <2>2, <2>3 DEF MergedAreKnown
<1>8. MergeInHand'
  BY <1>3, <1>5 DEF MergeInHand, MergesOf
<1>9. ApprovedIsMerged'
  BY <1>1, <1>2, <1>3, <1>5 DEF ApprovedIsMerged
<1>10. MergedIsRecorded'
  <2>1. rows'[p].status # "proposed"
    BY <1>2 DEF Approvals
  <2>2. ASSUME NEW q \in Proposals \ {p}, MergesOf(q) # {}, rows[q].status = "proposed",
               q \notin unrecorded
        PROVE  \E s \in Researchers : on'[s] = q /\ pc'[s] \in {"rev_parse", "decide"}
    <3>1. PICK s \in Researchers : on[s] = q /\ pc[s] \in {"rev_parse", "decide"}
      BY <2>2 DEF MergedIsRecorded
    <3>2. s # r
      BY <3>1
    <3> QED
      BY <1>3, <3>1, <3>2
  <2> QED
    BY <1>2, <1>3, <1>5, <2>1, <2>2 DEF MergedIsRecorded
<1> QED
  BY <1>4, <1>6, <1>7, <1>8, <1>9, <1>10

LEMMA RejectKeeps ==
  ASSUME IInv, NEW r \in Researchers, NEW p \in Proposals, Reject(r, p)
  PROVE  IInv'
<1> USE DEF IInv, git, command
<1>1. /\ rows'[p].status = "rejected" /\ Known(p)
      /\ \A q \in Proposals \ {p} : rows'[q] = rows[q]
      /\ rows' \in [Proposals -> [status : Statuses, sha : Nat]]
      /\ unrecorded' = unrecorded \ {p}
      /\ UNCHANGED <<git, base, opening, command>>
  BY DEF Reject, Statuses, NoCommit, TypeOK
<1>2. /\ \A q \in Proposals : MergesOf(q)' = MergesOf(q)
      /\ \A q \in Proposals : Known(q)' <=> Known(q)
  BY <1>1 DEF MergesOf, Known
<1>3. TypeOK' /\ RowIsLast'
  BY <1>1, <1>2 DEF TypeOK, RowIsLast
<1>4. MergedAreKnown'
  <2>1. unfinished # Nobody => unfinished \in Proposals /\ Known(unfinished)'
    BY <1>1, <1>2 DEF MergedAreKnown, TypeOK, Known
  <2>2. \A s \in Researchers : pc[s] # "idle" => on[s] \in Proposals /\ Known(on[s])'
    BY <1>1, <1>2 DEF MergedAreKnown, Known
  <2> QED
    BY <1>1, <1>2, <2>1, <2>2 DEF MergedAreKnown, Known
<1>5. MergeInHand'
  BY <1>1, <1>2 DEF MergeInHand, MergesOf
<1>6. ApprovedIsMerged' /\ MergedIsRecorded'
  BY <1>1, <1>2 DEF ApprovedIsMerged, MergedIsRecorded, Approvals
<1> QED
  BY <1>3, <1>4, <1>5, <1>6

LEMMA NextIInv == IInv /\ [Next]_vars => IInv'
<1> SUFFICES ASSUME IInv, [Next]_vars PROVE IInv'
  OBVIOUS
<1>1. CASE \E p \in Proposals : OpenProposal(p) \/ EditBranch(p) \/ KillOpen(p)
  BY <1>1, OpenKeeps
<1>2. ASSUME NEW r \in Researchers,
             ApproveStep(r) \/ KillApprove(r) \/ \E p \in Proposals : Approve(r, p)
      PROVE  IInv'
  <2>1. RecordApproval(r) => on[r] \in Proposals
    BY DEF RecordApproval, IInv, MergedAreKnown
  <2>2. RecordApproval(r) => IInv'
    BY <2>1, RecordApprovalKeeps
  <2> QED
    BY <1>2, <2>2, LookingKeeps, MergeBranchKeeps DEF ApproveStep
<1>3. ASSUME NEW r \in Researchers, NEW p \in Proposals, Reject(r, p) PROVE IInv'
  BY <1>3, RejectKeeps
<1>4. CASE AbortMerge \/ CommitResolution
  BY <1>4, ByHandKeeps
<1>5. CASE UNCHANGED vars
  <2>1. \A p \in Proposals : MergesOf(p)' = MergesOf(p) /\ Known(p)' = Known(p)
    BY <1>5 DEF vars, git, MergesOf, Known
  <2>2. TypeOK' /\ RowIsLast'
    BY <1>5, <2>1 DEF vars, git, command, IInv, TypeOK, RowIsLast
  <2>3. MergedAreKnown'
    BY <1>5, <2>1 DEF vars, git, command, IInv, MergedAreKnown, Known
  <2>4. MergeInHand' /\ ApprovedIsMerged' /\ MergedIsRecorded'
    BY <1>5, <2>1 DEF vars, git, command, IInv, MergeInHand, ApprovedIsMerged,
                      MergedIsRecorded, MergesOf
  <2> QED
    BY <2>2, <2>3, <2>4 DEF IInv
<1> QED
  BY <1>1, <1>2, <1>3, <1>4, <1>5 DEF Next

-----------------------------------------------------------------------------
LEMMA Invariance == Spec => []IInv
BY InitIInv, NextIInv, PTL DEF Spec

\* Git, the index and the commands keep their types.
THEOREM TypeCorrect == Spec => []TypeOK
<1>1. IInv => TypeOK
  BY DEF IInv
<1> QED
  BY <1>1, Invariance, PTL

\* GitStore.open_proposal: a listed proposal has its branch, whenever the agent is killed.
THEOREM ListedHaveBranches == Spec => []RowsHaveBranches
<1>1. IInv => RowsHaveBranches
  BY DEF IInv, RowIsLast, Known, RowsHaveBranches
<1> QED
  BY <1>1, Invariance, PTL

\* GitStore.approve: an approved proposal is merged, and its recorded commit exists.
THEOREM ApprovalsAreReal == Spec => []ApprovedIsMerged
<1>1. IInv => ApprovedIsMerged
  BY DEF IInv
<1> QED
  BY <1>1, Invariance, PTL

\* GitStore.approve: a merge the index does not know of is being recorded, or came from
\* a killed approve or from git by hand.
THEOREM MergesAreTold == Spec => []MergedIsRecorded
<1>1. IInv => MergedIsRecorded
  BY DEF IInv
<1> QED
  BY <1>1, Invariance, PTL
=============================================================================
