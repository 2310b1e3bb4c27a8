-------------------------- MODULE ProvisioningProofs --------------------------
(***************************************************************************)
(* What comes into effect was approved, and what was approved stays, for   *)
(* any number of bootstraps, onboards and proposals, any drafts and any    *)
(* order of merges.  The argument follows a line from the operating branch *)
(* through the files a command read to the branch it wrote: while every    *)
(* merged proposal was rendered from the operating branch, all that such a *)
(* proposal adds to what had been approved is its own draft.               *)
(***************************************************************************)
EXTENDS Provisioning, SequenceTheorems, TLAPS

\* A branch holds what was rendered over the configuration it was based on.
BranchesAreRendered ==
  \A p \in Branches :
    /\ made[p].base \in 1..Len(main)
    /\ made[p].lines = LinesOf(made[p].work, main[made[p].base])

\* What OnlyApprovedInEffect lacks to be inductive.
SourcesAreApproved ==
  RenderedFromOperatingBranch =>
    /\ \A i \in 1..Len(main) : main[i] \subseteq Approved
    /\ \A c \in Commands : work[c].from = OperatingBranch => work[c].read \subseteq Approved
    /\ \A p \in Branches :
         made[p].work.from = OperatingBranch => made[p].work.read \subseteq Approved

\* c is inside the loop of a bootstrap that drafts vendor by vendor.
Interpreting(c) ==
  \/ pc[c] = "interpret"
  \/ pc[c] \in {"render", "open", "list"} /\ work[c].kind = "data_source"

\* What VendorsAreAnswered lacks: until the loop ends, who has no row is still to come.
UnansweredAreToCome ==
  \A c \in Commands :
    /\ outcome[c] = "none" /\ Interpreting(c) => todo[c] = owed[c]
    /\ pc[c] = "probe" => outcome[c] = "none"

IInv == TypeOK /\ BranchesAreRendered /\ SourcesAreApproved
          /\ UnansweredAreToCome /\ VendorsAreAnswered

-----------------------------------------------------------------------------
LEMMA NoWorkIsWork == NoWork \in Work
  BY DEF NoWork, Work, Kind, OperatingBranch

LEMMA OnDiskIsLines == TypeOK => OnDisk \subseteq Line /\ Tip \subseteq Line
<1> SUFFICES ASSUME TypeOK PROVE OnDisk \subseteq Line /\ Tip \subseteq Line
  OBVIOUS
<1> USE DEF TypeOK
<1>1. Len(main) \in 1..Len(main)
  BY EmptySeq
<1>2. Tip \in SUBSET Line
  BY <1>1, ElementOfSeq DEF Tip
<1>3. tree # OperatingBranch => made[tree].lines \subseteq Line
  <2> SUFFICES ASSUME tree # OperatingBranch PROVE made[tree].lines \subseteq Line
    OBVIOUS
  <2>1. made \in Seq(Made) /\ tree \in 1..Len(made)
    BY DEF Branches
  <2>2. made[tree] \in Made
    BY <2>1, ElementOfSeq
  <2> QED
    BY <2>2 DEF Made
<1> QED
  BY <1>2, <1>3 DEF OnDisk

LEMMA LinesOfAreLines ==
  ASSUME NEW w \in Work, NEW base \in SUBSET Line
  PROVE  LinesOf(w, base) \in SUBSET Line
  BY DEF LinesOf, Rendered, Work

\* A rendered branch holds lines of its base, lines that were read and its own draft.
LEMMA LinesOfBound ==
  ASSUME NEW w, NEW base
  PROVE  LinesOf(w, base) \subseteq base \union w.read \union w.draft
  BY DEF LinesOf, Rendered

\* It lacks a line of its base only where onboarding replaces it or it was not read.
LEMMA LinesOfKeep ==
  ASSUME NEW w, NEW base, NEW line \in base \ LinesOf(w, base)
  PROVE  Replaces(w, line) \/ line \notin w.read
  BY DEF LinesOf, Rendered

LEMMA InitIInv == Init => IInv
<1> SUFFICES ASSUME Init PROVE IInv
  OBVIOUS
<1>1. main = <<Initial>> /\ made = <<>> /\ Len(main) = 1 /\ main[1] = Initial
  BY DEF Init
<1>2. main \in Seq(SUBSET Line) /\ main # <<>>
  BY <1>1, ConfigurationAssumption
<1>3. made \in Seq(Made) /\ Branches = {}
  BY <1>1, EmptySeq DEF Branches
<1>4. TypeOK
  BY <1>2, <1>3, NoWorkIsWork DEF Init, TypeOK
<1>5. BranchesAreRendered
  BY <1>3 DEF BranchesAreRendered
<1>6. SourcesAreApproved
  BY <1>1, <1>3 DEF Init, SourcesAreApproved, Approved, NoWork
<1>7. UnansweredAreToCome /\ VendorsAreAnswered
  BY DEF Init, UnansweredAreToCome, VendorsAreAnswered, Interpreting
<1> QED
  BY <1>4, <1>5, <1>6, <1>7 DEF IInv

-----------------------------------------------------------------------------
(***************************************************************************)
(* Type correctness.                                                       *)
(***************************************************************************)
LEMMA CommandTypes ==
  ASSUME TypeOK, NEW c \in Commands,
         \/ BootstrapStep(c)
         \/ \E descriptor \in Descriptors : Onboard(c, descriptor)
         \/ Render(c) \/ NothingToPropose(c) \/ Kill(c)
  PROVE  TypeOK'
<1> USE DEF TypeOK, branches, loop, Goto, Branches
<1>1. CASE Bootstrap(c)
  <2>1. Configured(OnDisk) \in SUBSET Keys
    BY OnDiskIsLines DEF Configured, Line
  <2> QED
    BY <1>1, <2>1 DEF Bootstrap
<1>2. CASE EndProbing(c)
  BY <1>2 DEF EndProbing
<1>3. CASE DraftRaises(c)
  BY <1>3, NoWorkIsWork DEF DraftRaises, Finish
<1>4. CASE EndBootstrap(c)
  BY <1>4, NoWorkIsWork DEF EndBootstrap, Finish
<1>5. CASE \E v \in Keys : Probe(c, v)
  BY <1>5 DEF Probe
<1>6. CASE \E v \in Keys : DraftNothing(c, v)
  BY <1>6 DEF DraftNothing, Tell
<1>7. CASE \E v \in Keys, draft \in Drafts : DraftProposal(c, v, draft)
  <2> SUFFICES ASSUME NEW v \in Keys, NEW draft \in Drafts, DraftProposal(c, v, draft)
               PROVE  TypeOK'
    BY <1>7
  <2>1. [NoWork EXCEPT !.draft = draft] \in Work
    BY ConfigurationAssumption, NoWorkIsWork DEF Work, NoWork, Kind
  <2> QED
    BY <2>1 DEF DraftProposal, Tell
<1>8. CASE \E descriptor \in Descriptors : Onboard(c, descriptor)
  <2> SUFFICES ASSUME NEW descriptor \in Descriptors, Onboard(c, descriptor)
               PROVE  TypeOK'
    BY <1>8
  <2>1. [NoWork EXCEPT !.kind = "onboarding", !.draft = descriptor] \in Work
    BY ConfigurationAssumption, NoWorkIsWork DEF Work, NoWork, Kind
  <2> QED
    BY <2>1 DEF Onboard
<1>9. CASE Render(c)
  <2>1. OnDisk \in SUBSET Line /\ tree \in Nat
    BY OnDiskIsLines DEF OperatingBranch
  <2>2. work' = [work EXCEPT ![c] = [[@ EXCEPT !.read = OnDisk] EXCEPT !.from = tree]]
    BY <1>9 DEF Render
  <2>3. [[work[c] EXCEPT !.read = OnDisk] EXCEPT !.from = tree] \in Work
    BY <2>1 DEF Work
  <2>4. work' \in [Commands -> Work]
    BY <2>2, <2>3
  <2> QED
    BY <1>9, <2>4 DEF Render
<1>10. CASE NothingToPropose(c)
  BY <1>10, NoWorkIsWork DEF NothingToPropose, Resume
<1>11. CASE Kill(c)
  BY <1>11, NoWorkIsWork DEF Kill, Finish
<1> QED
  BY <1>1, <1>2, <1>3, <1>4, <1>5, <1>6, <1>7, <1>8, <1>9, <1>10, <1>11 DEF BootstrapStep

LEMMA OpenBranchTypes ==
  ASSUME TypeOK, NEW c \in Commands, OpenBranch(c)
  PROVE  TypeOK'
<1> DEFINE b == [work |-> work[c], base |-> Len(main), lines |-> LinesOf(work[c], Tip)]
<1>1. made \in Seq(Made) /\ main \in Seq(SUBSET Line) /\ main # <<>> /\ work[c] \in Work
  BY DEF TypeOK
<1>2. b \in Made
  BY <1>1, EmptySeq, OnDiskIsLines, LinesOfAreLines DEF Made
<1>3. made' = Append(made, b)
  BY DEF OpenBranch
<1> HIDE DEF b
<1>4. made' \in Seq(Made) /\ Len(made') = Len(made) + 1 /\ Len(made) \in Nat
  BY <1>1, <1>2, <1>3, AppendProperties
<1>5. Branches \subseteq Branches'
  BY <1>4 DEF Branches
<1> QED
  BY <1>4, <1>5 DEF TypeOK, OpenBranch, Goto, loop

LEMMA ListProposalTypes ==
  ASSUME TypeOK, NEW c \in Commands, NEW p \in Branches, ListProposal(c, p)
  PROVE  TypeOK'
  BY NoWorkIsWork DEF TypeOK, ListProposal, Resume, Goto, loop, Branches

LEMMA ResearcherTypes ==
  ASSUME TypeOK, BranchesAreRendered,
         \/ \E p \in {OperatingBranch} \union listed : CheckOut(p)
         \/ \E p \in Branches : Approve(p) \/ MergeConflicts(p)
  PROVE  TypeOK'
<1>1. CASE \E p \in {OperatingBranch} \union listed : CheckOut(p)
  BY <1>1 DEF TypeOK, CheckOut, loop, Branches
<1>2. CASE \E p \in Branches : Approve(p)
  <2> SUFFICES ASSUME NEW p \in Branches, Approve(p)
               PROVE  TypeOK'
    BY <1>2
  <2>1. main \in Seq(SUBSET Line) /\ made[p] \in Made /\ made[p].base \in 1..Len(main)
    BY ElementOfSeq DEF TypeOK, BranchesAreRendered, Branches
  <2>2. main[made[p].base] \subseteq Line /\ Tip \subseteq Line /\ made[p].lines \subseteq Line
    BY <2>1, ElementOfSeq, OnDiskIsLines DEF Made
  <2>3. Merge3(main[made[p].base], Tip, made[p].lines) \in SUBSET Line
    BY <2>2 DEF Merge3
  <2>4. main' \in Seq(SUBSET Line) /\ main' # <<>>
    BY <2>1, <2>3, AppendProperties DEF Approve
  <2> QED
    BY <2>4 DEF TypeOK, Approve, loop, Branches
<1>3. CASE \E p \in Branches : MergeConflicts(p)
  BY <1>3 DEF TypeOK, MergeConflicts, loop, Branches
<1> QED
  BY <1>1, <1>2, <1>3

LEMMA TypesStep == TypeOK /\ BranchesAreRendered /\ [Next]_vars => TypeOK'
<1> SUFFICES ASSUME TypeOK, BranchesAreRendered, [Next]_vars
             PROVE  TypeOK'
  OBVIOUS
<1>1. CASE \E c \in Bootstraps : BootstrapStep(c)
  BY <1>1, CommandTypes DEF Commands
<1>2. CASE \E c \in Onboards, descriptor \in Descriptors : Onboard(c, descriptor)
  BY <1>2, CommandTypes DEF Commands
<1>3. CASE \E c \in Commands : ProposeStep(c) \/ Kill(c)
  BY <1>3, CommandTypes, OpenBranchTypes, ListProposalTypes DEF ProposeStep
<1>4. CASE \E p \in {OperatingBranch} \union listed : CheckOut(p)
  BY <1>4, ResearcherTypes
<1>5. CASE \E p \in Branches : Approve(p) \/ MergeConflicts(p)
  BY <1>5, ResearcherTypes
<1>6. CASE UNCHANGED vars
  BY <1>6 DEF TypeOK, vars, branches, loop, Branches
<1> QED
  BY <1>1, <1>2, <1>3, <1>4, <1>5, <1>6 DEF Next
-----------------------------------------------------------------------------
(***************************************************************************)
(* Branches, sources and answers.                                          *)
(***************************************************************************)
\* The branches there are stay as they are, and so do the configurations merged so far.
LEMMA HistoryGrows ==
  ASSUME TypeOK, [Next]_vars
  PROVE  /\ merged \subseteq merged'
         /\ Len(made) <= Len(made') /\ \A p \in Branches : made'[p] = made[p]
         /\ Len(main) <= Len(main') /\ \A i \in 1..Len(main) : main'[i] = main[i]
<1>1. made \in Seq(Made) /\ main \in Seq(SUBSET Line)
  BY DEF TypeOK
<1>2. Len(made) \in Nat /\ Len(main) \in Nat
  BY <1>1
<1>3. CASE \E c \in Commands : OpenBranch(c)
  <2>1. PICK b : made' = Append(made, b)
    BY <1>3 DEF OpenBranch
  <2>2. Len(made') = Len(made) + 1 /\ \A p \in 1..Len(made) : made'[p] = made[p]
    BY <1>1, <2>1
  <2> QED
    BY <1>2, <1>3, <2>2 DEF OpenBranch, Branches
<1>4. CASE \E p \in Branches : Approve(p)
  <2>1. PICK b : main' = Append(main, b)
    BY <1>4 DEF Approve
  <2>2. Len(main') = Len(main) + 1 /\ \A i \in 1..Len(main) : main'[i] = main[i]
    BY <1>1, <2>1
  <2> QED
    BY <1>2, <1>4, <2>2 DEF Approve, Branches
<1>5. CASE UNCHANGED <<main, made, merged>>
  BY <1>2, <1>5 DEF Branches
<1>6. \/ \E c \in Commands : OpenBranch(c)
      \/ \E p \in Branches : Approve(p)
      \/ UNCHANGED <<main, made, merged>>
  BY DEF Next, vars, branches, BootstrapStep, ProposeStep, Commands, Bootstrap, Probe,
         EndProbing, DraftNothing, DraftProposal, DraftRaises, EndBootstrap, Onboard,
         Render, NothingToPropose, ListProposal, Kill, CheckOut, MergeConflicts
<1> QED
  BY <1>3, <1>4, <1>5, <1>6

\* Only these steps change a command's draft, and what was read for it.
LEMMA WorkChanges ==
  ASSUME TypeOK, [Next]_vars, NEW c \in Commands
  PROVE  \/ work'[c] = work[c]
         \/ work'[c].read = {}
         \/ work'[c].from = tree /\ work'[c].read = OnDisk
<1> USE DEF TypeOK, NoWork, Work
<1>1. CASE \E d \in Commands : Render(d)
  BY <1>1 DEF Render
<1>2. CASE \E d \in Commands : NothingToPropose(d) \/ \E p \in Branches : ListProposal(d, p)
  BY <1>2 DEF NothingToPropose, ListProposal, Resume
<1>3. CASE \E d \in Commands : Kill(d) \/ EndBootstrap(d) \/ DraftRaises(d)
  BY <1>3 DEF Kill, EndBootstrap, DraftRaises, Finish
<1>4. CASE \E d \in Commands, v \in Keys, draft \in Drafts : DraftProposal(d, v, draft)
  BY <1>4 DEF DraftProposal
<1>5. CASE \E d \in Commands, descriptor \in Descriptors : Onboard(d, descriptor)
  BY <1>5 DEF Onboard
<1>6. CASE work' = work
  BY <1>6
<1>7. \/ \E d \in Commands : Render(d)
      \/ \E d \in Commands : NothingToPropose(d) \/ \E p \in Branches : ListProposal(d, p)
      \/ \E d \in Commands : Kill(d) \/ EndBootstrap(d) \/ DraftRaises(d)
      \/ \E d \in Commands, v \in Keys, draft \in Drafts : DraftProposal(d, v, draft)
      \/ \E d \in Commands, descriptor \in Descriptors : Onboard(d, descriptor)
      \/ work' = work
  BY DEF Next, vars, BootstrapStep, ProposeStep, Commands, Bootstrap, Probe, EndProbing,
         DraftNothing, OpenBranch, CheckOut, Approve, MergeConflicts
<1> QED
  BY <1>1, <1>2, <1>3, <1>4, <1>5, <1>6, <1>7

\* A new branch is the only one its step writes, from the work at hand and the tip.
LEMMA NewBranch ==
  ASSUME TypeOK, [Next]_vars, NEW p \in Branches', p \notin Branches
  PROVE  \E c \in Commands :
           /\ made'[p] = [work |-> work[c], base |-> Len(main), lines |-> LinesOf(work[c], Tip)]
           /\ main' = main /\ work' = work /\ merged' = merged
<1>1. \E c \in Commands : OpenBranch(c)
  BY DEF Next, vars, branches, BootstrapStep, ProposeStep, Commands, Bootstrap, Probe,
         EndProbing, DraftNothing, DraftProposal, DraftRaises, EndBootstrap, Onboard,
         Render, NothingToPropose, ListProposal, Kill, CheckOut, MergeConflicts, Approve, Branches
<1>2. PICK c \in Commands : OpenBranch(c)
  BY <1>1
<1> DEFINE b == [work |-> work[c], base |-> Len(main), lines |-> LinesOf(work[c], Tip)]
<1>3. made' = Append(made, b) /\ made \in Seq(Made)
  BY <1>2 DEF OpenBranch, TypeOK
<1>4. p = Len(made) + 1
  BY <1>3 DEF Branches
<1>5. made'[p] = b
  BY <1>3, <1>4
<1> QED
  BY <1>2, <1>5 DEF OpenBranch

LEMMA BranchesStep ==
  ASSUME TypeOK, BranchesAreRendered, [Next]_vars
  PROVE  BranchesAreRendered'
<1>1. main \in Seq(SUBSET Line) /\ main # <<>>
  BY DEF TypeOK
<1>2. Len(main) \in 1..Len(main) /\ Len(main') \in Int
  BY <1>1, TypesStep, EmptySeq DEF TypeOK
<1> SUFFICES ASSUME NEW p \in Branches'
             PROVE  /\ made'[p].base \in 1..Len(main')
                    /\ made'[p].lines = LinesOf(made'[p].work, main'[made'[p].base])
  BY DEF BranchesAreRendered, LinesOf, Rendered, FilesOf, Replaces, IsNew
<1>3. CASE p \in Branches
  <2>1. made'[p] = made[p] /\ made[p].base \in 1..Len(main)
    BY <1>3, HistoryGrows DEF BranchesAreRendered
  <2>2. main'[made[p].base] = main[made[p].base] /\ Len(main) <= Len(main')
    BY <2>1, HistoryGrows
  <2>3. made[p].lines = LinesOf(made[p].work, main[made[p].base])
    BY <1>3 DEF BranchesAreRendered
  <2> QED
    BY <1>2, <2>1, <2>2, <2>3
<1>4. CASE p \notin Branches
  <2>1. PICK c \in Commands :
          /\ made'[p] = [work |-> work[c], base |-> Len(main), lines |-> LinesOf(work[c], Tip)]
          /\ main' = main
    BY <1>4, NewBranch
  <2> QED
    BY <1>2, <2>1 DEF Tip
<1> QED
  BY <1>3, <1>4

\* An approval adds to the operating branch what it had or what the proposal's branch has.
LEMMA MainStep ==
  ASSUME TypeOK, [Next]_vars, NEW i \in 1..Len(main'), i \notin 1..Len(main)
  PROVE  \E p \in merged' \ merged :
           p \in Branches /\ main'[i] \subseteq Tip \union made[p].lines
<1>1. \E p \in Branches : Approve(p)
  BY DEF Next, vars, branches, BootstrapStep, ProposeStep, Commands, Bootstrap, Probe,
         EndProbing, DraftNothing, DraftProposal, DraftRaises, EndBootstrap, Onboard,
         Render, NothingToPropose, OpenBranch, ListProposal, Kill, CheckOut, MergeConflicts
<1>2. PICK p \in Branches : Approve(p)
  BY <1>1
<1> DEFINE m == Merge3(main[made[p].base], Tip, made[p].lines)
<1>3. main' = Append(main, m) /\ main \in Seq(SUBSET Line)
  BY <1>2 DEF Approve, TypeOK
<1>4. i = Len(main) + 1
  BY <1>3
<1>5. main'[i] = m
  BY <1>3, <1>4
<1>6. m \subseteq Tip \union made[p].lines
  BY DEF Merge3
<1>7. p \in merged' \ merged
  BY <1>2 DEF Approve, MayApprove
<1> QED
  BY <1>5, <1>6, <1>7

LEMMA SourcesStep ==
  ASSUME TypeOK, BranchesAreRendered, SourcesAreApproved, [Next]_vars
  PROVE  SourcesAreApproved'
<1> SUFFICES ASSUME RenderedFromOperatingBranch'
             PROVE  /\ \A i \in 1..Len(main') : main'[i] \subseteq Approved'
                    /\ \A c \in Commands :
                         work'[c].from = OperatingBranch => work'[c].read \subseteq Approved'
                    /\ \A p \in Branches' :
                         made'[p].work.from = OperatingBranch
                           => made'[p].work.read \subseteq Approved'
  BY DEF SourcesAreApproved
<1>1. merged \subseteq merged' /\ merged \subseteq Branches /\ \A p \in Branches : made'[p] = made[p]
  BY HistoryGrows DEF TypeOK
<1>2. RenderedFromOperatingBranch
  BY <1>1 DEF RenderedFromOperatingBranch
<1>3. Approved \subseteq Approved'
  BY <1>1 DEF Approved
<1>4. Len(main) \in 1..Len(main)
  BY EmptySeq DEF TypeOK
<1>5. Tip \subseteq Approved
  BY <1>2, <1>4 DEF SourcesAreApproved, Tip
<1>6. ASSUME NEW i \in 1..Len(main')
      PROVE  main'[i] \subseteq Approved'
  <2>1. CASE i \in 1..Len(main)
    BY <1>2, <1>3, <2>1, HistoryGrows DEF SourcesAreApproved
  <2>2. CASE i \notin 1..Len(main)
    <3>1. PICK p \in merged' \ merged :
            p \in Branches /\ main'[i] \subseteq Tip \union made[p].lines
      BY <2>2, MainStep
    <3>2. made'[p] = made[p] /\ made[p].work.from = OperatingBranch
      BY <1>1, <3>1 DEF RenderedFromOperatingBranch
    <3>3. made[p].work.read \subseteq Approved /\ made[p].work.draft \subseteq Approved'
      BY <1>2, <3>1, <3>2 DEF SourcesAreApproved, Approved
    <3>4. main[made[p].base] \subseteq Approved
      BY <1>2, <3>1 DEF SourcesAreApproved, BranchesAreRendered
    <3>5. made[p].lines \subseteq main[made[p].base] \union made[p].work.read \union made[p].work.draft
      BY <3>1, LinesOfBound DEF BranchesAreRendered
    <3> QED
      BY <1>3, <1>5, <3>1, <3>3, <3>4, <3>5
  <2> QED
    BY <2>1, <2>2
<1>7. ASSUME NEW c \in Commands, work'[c].from = OperatingBranch
      PROVE  work'[c].read \subseteq Approved'
  <2>1. CASE work'[c] = work[c]
    BY <1>2, <1>3, <1>7, <2>1 DEF SourcesAreApproved
  <2>2. CASE work'[c].read = {}
    BY <2>2
  <2>3. CASE work'[c].from = tree /\ work'[c].read = OnDisk
    BY <1>3, <1>5, <1>7, <2>3 DEF OnDisk
  <2> QED
    BY <2>1, <2>2, <2>3, WorkChanges
<1>8. ASSUME NEW p \in Branches', made'[p].work.from = OperatingBranch
      PROVE  made'[p].work.read \subseteq Approved'
  <2>1. CASE p \in Branches
    BY <1>1, <1>2, <1>3, <1>8, <2>1 DEF SourcesAreApproved
  <2>2. CASE p \notin Branches
    <3>1. PICK c \in Commands :
            made'[p] = [work |-> work[c], base |-> Len(main), lines |-> LinesOf(work[c], Tip)]
      BY <2>2, NewBranch
    <3>2. made'[p].work = work[c]
      BY <3>1
    <3> QED
      BY <1>2, <1>3, <1>8, <3>2 DEF SourcesAreApproved
  <2> QED
    BY <2>1, <2>2
<1> QED
  BY <1>6, <1>7, <1>8

\* A row for one vendor leaves the others' as they are.
LEMMA TellKeeps ==
  ASSUME TypeOK, UnansweredAreToCome, VendorsAreAnswered,
         NEW c \in Commands, NEW v \in Keys, pc[c] = "interpret", Tell(c, v),
         pc'[c] = "interpret" \/ pc'[c] = "render",
         \A d \in Commands \ {c} : pc'[d] = pc[d] /\ work'[d] = work[d]
  PROVE  UnansweredAreToCome' /\ VendorsAreAnswered'
<1> USE DEF TypeOK, UnansweredAreToCome, VendorsAreAnswered, Interpreting, Tell
<1>1. todo'[c] = todo[c] \ {v} /\ owed'[c] = owed[c] \ {v} /\ outcome' = outcome
  OBVIOUS
<1>2. \A d \in Commands \ {c} : todo'[d] = todo[d] /\ owed'[d] = owed[d]
  OBVIOUS
<1>3. \A d \in Commands \ {c} : Interpreting(d)' = Interpreting(d)
  OBVIOUS
<1>4. ASSUME NEW d \in Commands
      PROVE  /\ outcome'[d] = "none" /\ Interpreting(d)' => todo'[d] = owed'[d]
             /\ pc'[d] = "probe" => outcome'[d] = "none"
             /\ outcome'[d] = "returned" => owed'[d] = {}
  <2>1. CASE d = c
    BY <1>1, <2>1
  <2>2. CASE d # c
    BY <1>1, <1>2, <1>3, <2>2
  <2> QED
    BY <2>1, <2>2
<1> QED
  BY <1>4

\* A command goes back to its loop if it came from there.
LEMMA ResumeKeeps ==
  ASSUME TypeOK, UnansweredAreToCome, VendorsAreAnswered,
         NEW c \in Commands, pc[c] \in {"open", "list"}, Resume(c), UNCHANGED loop
  PROVE  UnansweredAreToCome' /\ VendorsAreAnswered'
<1> USE DEF TypeOK, UnansweredAreToCome, VendorsAreAnswered, Interpreting, Resume, Goto, loop
<1>1. pc'[c] = IF work[c].kind = "onboarding" THEN "idle" ELSE "interpret"
  OBVIOUS
<1>2. work[c].kind \in Kind
  BY DEF Work
<1>3. Interpreting(c)' => Interpreting(c)
  BY <1>1, <1>2 DEF Kind
<1>4. \A d \in Commands \ {c} : pc'[d] = pc[d] /\ work'[d] = work[d]
  OBVIOUS
<1>5. \A d \in Commands : Interpreting(d)' => Interpreting(d)
  BY <1>3, <1>4
<1>6. \A d \in Commands : pc'[d] = "probe" => pc[d] = "probe"
  BY <1>1, <1>4
<1> QED
  BY <1>5, <1>6

LEMMA AnswersStep ==
  ASSUME TypeOK, UnansweredAreToCome, VendorsAreAnswered, [Next]_vars
  PROVE  UnansweredAreToCome' /\ VendorsAreAnswered'
<1> USE DEF TypeOK, UnansweredAreToCome, VendorsAreAnswered, Interpreting, Goto, loop
<1>1. ASSUME NEW c \in Bootstraps, BootstrapStep(c)
      PROVE  UnansweredAreToCome' /\ VendorsAreAnswered'
  <2> c \in Commands
    BY DEF Commands
  <2>1. CASE Bootstrap(c)
    BY <2>1 DEF Bootstrap
  <2>2. CASE \E v \in Keys : Probe(c, v)
    BY <2>2 DEF Probe
  <2>3. CASE EndProbing(c)
    BY <2>3 DEF EndProbing
  <2>4. CASE \E v \in Keys : DraftNothing(c, v)
    BY <2>4, TellKeeps DEF DraftNothing
  <2>5. CASE \E v \in Keys, draft \in Drafts : DraftProposal(c, v, draft)
    BY <2>5, TellKeeps DEF DraftProposal
  <2>6. CASE DraftRaises(c)
    BY <2>6 DEF DraftRaises, Finish
  <2>7. CASE EndBootstrap(c)
    BY <2>7 DEF EndBootstrap, Finish
  <2> QED
    BY <1>1, <2>1, <2>2, <2>3, <2>4, <2>5, <2>6, <2>7 DEF BootstrapStep
<1>2. ASSUME NEW c \in Onboards, NEW descriptor \in Descriptors, Onboard(c, descriptor)
      PROVE  UnansweredAreToCome' /\ VendorsAreAnswered'
  BY <1>2 DEF Onboard, Commands
<1>3. ASSUME NEW c \in Commands, ProposeStep(c) \/ Kill(c)
      PROVE  UnansweredAreToCome' /\ VendorsAreAnswered'
  <2>1. CASE Render(c)
    BY <2>1 DEF Render
  <2>2. CASE NothingToPropose(c)
    BY <2>2, ResumeKeeps DEF NothingToPropose
  <2>3. CASE OpenBranch(c)
    BY <2>3 DEF OpenBranch
  <2>4. CASE \E p \in Branches : ListProposal(c, p)
    BY <2>4, ResumeKeeps DEF ListProposal
  <2>5. CASE Kill(c)
    BY <2>5 DEF Kill, Finish
  <2> QED
    BY <1>3, <2>1, <2>2, <2>3, <2>4, <2>5 DEF ProposeStep
<1>4. CASE UNCHANGED <<pc, loop, work>>
  BY <1>4
<1>5. \/ UNCHANGED <<pc, loop, work>>
      \/ \E c \in Bootstraps : BootstrapStep(c)
      \/ \E c \in Onboards, descriptor \in Descriptors : Onboard(c, descriptor)
      \/ \E c \in Commands : ProposeStep(c) \/ Kill(c)
  BY DEF Next, vars, CheckOut, Approve, MergeConflicts
<1> QED
  BY <1>1, <1>2, <1>3, <1>4, <1>5

LEMMA NextIInv == IInv /\ [Next]_vars => IInv'
  BY TypesStep, BranchesStep, SourcesStep, AnswersStep DEF IInv

LEMMA Invariance == Spec => []IInv
  BY InitIInv, NextIInv, PTL DEF Spec

-----------------------------------------------------------------------------
\* Type correctness.
THEOREM TypeCorrect == Spec => []TypeOK
<1>1. IInv => TypeOK
  BY DEF IInv
<1> QED
  BY <1>1, Invariance, PTL

\* Nothing comes into effect that was neither there at first nor approved, as long as no
\* merged proposal was rendered while some proposal's branch was checked out.
THEOREM NothingUnapproved == Spec => []OnlyApprovedInEffect
<1>1. IInv => OnlyApprovedInEffect
  <2> SUFFICES ASSUME IInv, RenderedFromOperatingBranch PROVE Tip \subseteq Approved
    BY DEF OnlyApprovedInEffect
  <2>1. Len(main) \in 1..Len(main)
    BY EmptySeq DEF IInv, TypeOK
  <2> QED
    BY <2>1 DEF IInv, SourcesAreApproved, Tip
<1> QED
  BY <1>1, Invariance, PTL

\* A merge takes away only what an onboarding replaces, and what was approved between the
\* reading of the proposal's files and its base.
THEOREM ApprovalsStay == Spec => ApprovedLinesStay
<1> DEFINE Stays == \A line \in Tip \ Tip' :
              \E p \in merged' \ merged :
                Replaces(made[p].work, line) \/ line \notin made[p].work.read
<1>1. IInv /\ [Next]_vars => [Stays]_vars
  <2> SUFFICES ASSUME IInv, [Next]_vars, NEW line \in Tip \ Tip'
               PROVE  \E p \in merged' \ merged :
                        Replaces(made[p].work, line) \/ line \notin made[p].work.read
    OBVIOUS
  <2>1. main \in Seq(SUBSET Line)
    BY DEF IInv, TypeOK
  <2>2. main' # main
    BY DEF Tip
  <2>3. \E p \in Branches : Approve(p)
    BY <2>2 DEF Next, vars, branches, BootstrapStep, ProposeStep, Bootstrap, Probe,
         EndProbing, DraftNothing, DraftProposal, DraftRaises, EndBootstrap, Onboard,
         Render, NothingToPropose, OpenBranch, ListProposal, Kill, CheckOut, MergeConflicts
  <2>4. PICK p \in Branches : Approve(p)
    BY <2>3
  <2> DEFINE base == main[made[p].base]
             merge == Merge3(base, Tip, made[p].lines)
  <2>5. main' = Append(main, merge)
    BY <2>4 DEF Approve
  <2>6. Tip' = merge
    BY <2>1, <2>5 DEF Tip
  <2>7. line \in base \ made[p].lines
    BY <2>6 DEF Merge3
  <2>8. made[p].lines = LinesOf(made[p].work, base)
    BY DEF IInv, BranchesAreRendered
  <2>9. Replaces(made[p].work, line) \/ line \notin made[p].work.read
    BY <2>7, <2>8, LinesOfKeep
  <2> QED
    BY <2>4, <2>9 DEF Approve, MayApprove
<1> QED
  BY <1>1, Invariance, PTL DEF Spec, ApprovedLinesStay

\* A bootstrap that returns within its budget has an answer on record for every vendor.
THEOREM EveryVendorAnswered == Spec => []VendorsAreAnswered
<1>1. IInv => VendorsAreAnswered
  BY DEF IInv
<1> QED
  BY <1>1, Invariance, PTL
=============================================================================
