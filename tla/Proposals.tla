------------------------------ MODULE Proposals ------------------------------
(***************************************************************************)
(* ops_agent/proposals/git_store.py: configuration proposals as branches   *)
(* of the repository, with an index of them in ops_agent.sqlite.  The      *)
(* agent opens proposals; researchers edit their branches, approve them    *)
(* (a merge into the operating branch, then the row) and reject them.      *)
(*                                                                         *)
(* Git is modelled by what these commands see of it: the merge commits of  *)
(* the operating branch in order, how many commits each proposal branch    *)
(* has and how many of them are merged, and the merge a conflict left      *)
(* unfinished in the working tree.  One action is one git command or one   *)
(* transaction, together with what precedes it.                            *)
(***************************************************************************)
EXTENDS Integers, Sequences, FiniteSets

CONSTANTS
  Proposals,   \* proposal ids, one branch each
  Researchers, \* processes that run approve and reject
  MaxCommits,  \* bound: commits on a proposal branch
  MaxMerges,   \* bound: merge commits of the operating branch
  MayDie       \* whether a command may be killed between two steps

ASSUME ProposalsAssumption ==
  /\ IsFiniteSet(Proposals) /\ IsFiniteSet(Researchers)
  /\ MaxCommits \in Nat \ {0} /\ MaxMerges \in Nat
  /\ MayDie \in BOOLEAN

NoCommit == 0      \* applied_commit_sha IS NULL
Nobody == "nobody" \* no proposal

ASSUME NobodyAssumption == Nobody \notin Proposals

VARIABLES
  main,       \* operating branch: the merge commits after the first commit
  tip,        \* proposal -> commits on its branch, 0 before the branch exists
  base,       \* proposal -> length of main at its base_commit_sha
  rows,       \* proposals table: status and applied_commit_sha, or "absent"
  unfinished, \* proposal whose conflicting merge is in the working tree
  opening,    \* proposal -> next step of its open_proposal
  pc,         \* researcher -> next step of the command
  on,         \* researcher -> the proposal the command is about, or nobody
  edited,     \* researcher -> `edited` of approve
  head,       \* researcher -> merge_commit_sha of approve
  unrecorded  \* history: proposals merged by hand or by a killed approve

git == <<main, tip, unfinished>>
command == <<pc, on, edited, head>>
vars == <<git, base, rows, opening, command, unrecorded>>

Statuses == {"absent", "proposed", "approved", "edited_and_approved", "rejected"}
Approvals == {"approved", "edited_and_approved"}

MergesOf(p) == {i \in 1..Len(main) : main[i].proposal = p}

\* The tip of p's branch is an ancestor of the operating branch: no commit came after
\* the last one merged.
UpToDate(p) == \E i \in MergesOf(p) : main[i].upTo = tip[p]

Init ==
  /\ main = <<>>
  /\ tip = [p \in Proposals |-> 0]
  /\ base = [p \in Proposals |-> 0]
  /\ rows = [p \in Proposals |-> [status |-> "absent", sha |-> NoCommit]]
  /\ unfinished = Nobody
  /\ opening = [p \in Proposals |-> "rev_parse"]
  /\ pc = [r \in Researchers |-> "idle"]
  /\ on = [r \in Researchers |-> Nobody]
  /\ edited = [r \in Researchers |-> FALSE]
  /\ head = [r \in Researchers |-> NoCommit]
  /\ unrecorded = {}

Goto(r, place) == pc' = [pc EXCEPT ![r] = place]

\* The command ends and its locals with it.
Finish(r) ==
  /\ Goto(r, "idle")
  /\ on' = [on EXCEPT ![r] = Nobody]
  /\ edited' = [edited EXCEPT ![r] = FALSE]
  /\ head' = [head EXCEPT ![r] = NoCommit]

Merge(p) == main' = Append(main, [proposal |-> p, upTo |-> tip[p]])

-----------------------------------------------------------------------------
(***************************************************************************)
(* open_proposal: base, branch, row.                                       *)
(***************************************************************************)
ReadBase(p) ==
  /\ opening[p] = "rev_parse"
  /\ base' = [base EXCEPT ![p] = Len(main)]
  /\ opening' = [opening EXCEPT ![p] = "update_ref"]
  /\ UNCHANGED <<git, rows, command, unrecorded>>

WriteBranch(p) ==
  /\ opening[p] = "update_ref"
  /\ tip' = [tip EXCEPT ![p] = 1]
  /\ opening' = [opening EXCEPT ![p] = "create_proposal"]
  /\ UNCHANGED <<main, unfinished, base, rows, command, unrecorded>>

CreateRow(p) ==
  /\ opening[p] = "create_proposal"
  /\ rows' = [rows EXCEPT ![p] = [status |-> "proposed", sha |-> NoCommit]]
  /\ opening' = [opening EXCEPT ![p] = "done"]
  /\ UNCHANGED <<git, base, command, unrecorded>>

\* A researcher commits on the branch, before or after its row exists.
EditBranch(p) ==
  /\ tip[p] \in 1..(MaxCommits - 1)
  /\ tip' = [tip EXCEPT ![p] = @ + 1]
  /\ UNCHANGED <<main, unfinished, base, rows, opening, command, unrecorded>>

(***************************************************************************)
(* approve.  The row is read for its branch and base and not for its       *)
(* status.                                                                 *)
(***************************************************************************)
Known(p) == rows[p].status # "absent"

Approve(r, p) ==
  /\ pc[r] = "idle"
  /\ Known(p)
  /\ on' = [on EXCEPT ![r] = p]
  /\ Goto(r, "count")
  /\ UNCHANGED <<git, base, rows, opening, edited, head, unrecorded>>

\* rev-list --count base..branch
CountCommits(r) ==
  /\ pc[r] = "count"
  /\ edited' = [edited EXCEPT ![r] = tip[on[r]] > 1]
  /\ Goto(r, "merge")
  /\ UNCHANGED <<git, base, rows, opening, on, head, unrecorded>>

\* checkout refuses while a conflicting merge is in the index.
CheckoutFails(r) ==
  /\ pc[r] = "merge"
  /\ unfinished # Nobody
  /\ Finish(r)
  /\ UNCHANGED <<git, base, rows, opening, unrecorded>>

\* "Already up to date.", with exit code 0.
MergeNothing(r) ==
  /\ pc[r] = "merge"
  /\ unfinished = Nobody
  /\ UpToDate(on[r])
  /\ Goto(r, "rev_parse")
  /\ UNCHANGED <<git, base, rows, opening, on, edited, head, unrecorded>>

MergeBranch(r) ==
  /\ pc[r] = "merge"
  /\ unfinished = Nobody
  /\ ~UpToDate(on[r])
  /\ Len(main) < MaxMerges
  /\ Merge(on[r])
  /\ Goto(r, "rev_parse")
  /\ UNCHANGED <<tip, unfinished, base, rows, opening, on, edited, head, unrecorded>>

\* Mutant: the exit code of the merge is not looked at.
IgnoreConflict(r) ==
  /\ pc[r] = "merge"
  /\ unfinished = Nobody
  /\ ~UpToDate(on[r])
  /\ \E i \in (base[on[r]] + 1)..Len(main) : main[i].proposal # on[r]
  /\ unfinished' = on[r]
  /\ Goto(r, "rev_parse")
  /\ UNCHANGED <<main, tip, base, rows, opening, on, edited, head, unrecorded>>

\* Whatever was merged since the base may touch the same lines.  The command raises and
\* leaves the tree as the merge left it.
MergeConflicts(r) ==
  /\ pc[r] = "merge"
  /\ unfinished = Nobody
  /\ ~UpToDate(on[r])
  /\ \E i \in (base[on[r]] + 1)..Len(main) : main[i].proposal # on[r]
  /\ unfinished' = on[r]
  /\ Finish(r)
  /\ UNCHANGED <<main, tip, base, rows, opening, unrecorded>>

ReadHead(r) ==
  /\ pc[r] = "rev_parse"
  /\ head' = [head EXCEPT ![r] = Len(main)]
  /\ Goto(r, "decide")
  /\ UNCHANGED <<git, base, rows, opening, on, edited, unrecorded>>

\* Mutant: only the commit is recorded.
RecordCommitOnly(r) ==
  /\ pc[r] = "decide"
  /\ rows' = [rows EXCEPT ![on[r]].sha = head[r]]
  /\ unrecorded' = unrecorded \ {on[r]}
  /\ Finish(r)
  /\ UNCHANGED <<git, base, opening>>

RecordApproval(r) ==
  /\ pc[r] = "decide"
  /\ rows' = [rows EXCEPT ![on[r]] =
       [status |-> IF edited[r] THEN "edited_and_approved" ELSE "approved",
        sha |-> head[r]]]
  /\ unrecorded' = unrecorded \ {on[r]}
  /\ Finish(r)
  /\ UNCHANGED <<git, base, opening>>

\* reject has one transaction.
Reject(r, p) ==
  /\ pc[r] = "idle"
  /\ Known(p)
  /\ rows' = [rows EXCEPT ![p] = [status |-> "rejected", sha |-> NoCommit]]
  /\ unrecorded' = unrecorded \ {p}
  /\ UNCHANGED <<git, base, opening, command>>

(***************************************************************************)
(* What researchers do by hand with a conflict, and kills.                 *)
(***************************************************************************)
AbortMerge ==
  /\ unfinished # Nobody
  /\ unfinished' = Nobody
  /\ UNCHANGED <<main, tip, base, rows, opening, command, unrecorded>>

CommitResolution ==
  /\ unfinished # Nobody
  /\ Len(main) < MaxMerges
  /\ Merge(unfinished)
  /\ unfinished' = Nobody
  /\ unrecorded' = unrecorded \union {unfinished}
  /\ UNCHANGED <<tip, base, rows, opening, command>>

KillApprove(r) ==
  /\ MayDie
  /\ pc[r] # "idle"
  /\ unrecorded' = IF pc[r] \in {"rev_parse", "decide"}
                   THEN unrecorded \union {on[r]} ELSE unrecorded
  /\ Finish(r)
  /\ UNCHANGED <<git, base, rows, opening>>

KillOpen(p) ==
  /\ MayDie
  /\ opening[p] \in {"update_ref", "create_proposal"}
  /\ opening' = [opening EXCEPT ![p] = "dead"]
  /\ UNCHANGED <<git, base, rows, command, unrecorded>>

-----------------------------------------------------------------------------
OpenProposal(p) == ReadBase(p) \/ WriteBranch(p) \/ CreateRow(p)

ApproveStep(r) ==
  \/ CountCommits(r) \/ CheckoutFails(r)
  \/ MergeNothing(r) \/ MergeBranch(r) \/ MergeConflicts(r)
  \/ ReadHead(r) \/ RecordApproval(r)

Next ==
  \/ \E p \in Proposals : OpenProposal(p) \/ EditBranch(p) \/ KillOpen(p)
  \/ \E r \in Researchers :
       \/ ApproveStep(r) \/ KillApprove(r)
       \/ \E p \in Proposals : Approve(r, p) \/ Reject(r, p)
  \/ AbortMerge \/ CommitResolution

Spec == Init /\ [][Next]_vars

-----------------------------------------------------------------------------
TypeOK ==
  /\ main \in Seq([proposal : Proposals, upTo : 1..MaxCommits])
  /\ tip \in [Proposals -> 0..MaxCommits]
  /\ base \in [Proposals -> Nat]
  /\ rows \in [Proposals -> [status : Statuses, sha : Nat]]
  /\ unfinished \in Proposals \union {Nobody}
  /\ opening \in [Proposals -> {"rev_parse", "update_ref", "create_proposal", "done",
                                "dead"}]
  /\ pc \in [Researchers -> {"idle", "count", "merge", "rev_parse", "decide"}]
  /\ on \in [Researchers -> Proposals \union {Nobody}]
  /\ edited \in [Researchers -> BOOLEAN]
  /\ head \in [Researchers -> Nat]
  /\ unrecorded \subseteq Proposals

\* Rule 6, git is the source of truth: a row is never without its branch, whenever the
\* agent is killed, and its base is a commit the operating branch still has.
RowsHaveBranches ==
  \A p \in Proposals : rows[p].status # "absent" => tip[p] > 0 /\ base[p] <= Len(main)

\* An approved row is backed by a merge of that proposal, and the commit it records is
\* one the operating branch has.
ApprovedIsMerged ==
  \A p \in Proposals : rows[p].status \in Approvals =>
    MergesOf(p) # {} /\ rows[p].sha \in 1..Len(main)

\* A merged proposal still listed as proposed is being approved right now, or its approve
\* was killed after the merge, or a conflict was resolved by hand: no other way leads
\* there.
MergedIsRecorded ==
  \A p \in Proposals : MergesOf(p) # {} /\ rows[p].status = "proposed" =>
    \/ p \in unrecorded
    \/ \E r \in Researchers : on[r] = p /\ pc[r] \in {"rev_parse", "decide"}

(***************************************************************************)
(* What the documents say and the code does not do.                        *)
(***************************************************************************)

\* Rule 4: the recorded commit is the merge of this proposal.
RecordedCommitIsItsMerge ==
  \A p \in Proposals : rows[p].status \in Approvals => rows[p].sha \in MergesOf(p)

\* The lifecycle: a rejected proposal is one whose branch was left unmerged.
RejectedIsUnmerged ==
  \A p \in Proposals : rows[p].status = "rejected" => MergesOf(p) = {}

\* Rule 5: a rejection is durable.
RejectionIsDurable ==
  [][\A p \in Proposals : rows[p].status = "rejected" => rows'[p].status = "rejected"]_vars

\* User story 3: the working tree that ingest and run_cycle read their configuration from
\* is that of the operating branch's last approved state.
TreeIsApproved == unfinished = Nobody
=============================================================================
