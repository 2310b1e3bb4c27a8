----------------------------- MODULE Provisioning -----------------------------
(***************************************************************************)
(* How configuration drafted by a language model comes into effect:        *)
(* bootstrap probes every configured vendor and drafts a proposal from     *)
(* each catalog, onboard drafts the descriptor of one vendor, both render  *)
(* whole files from the working tree and commit them on a branch of the    *)
(* operating branch, and a researcher's approve merges that branch.        *)
(*                                                                         *)
(* A configuration is a set of lines: config/default.yaml lists the        *)
(* instrument universe, config/providers.yaml the market and the context   *)
(* providers.  A line names its list, the entry it belongs to and one      *)
(* value, the category or the connector kind.  Git's three-way merge works *)
(* on these lines.  The steps inside open_proposal and approve, and what a *)
(* conflict leaves behind, are in Proposals; budgets are in BudgetGuard.   *)
(* data_source_descriptors, which onboard writes last, is read by nothing  *)
(* and left out.                                                           *)
(***************************************************************************)
EXTENDS Integers, Sequences, FiniteSets

CONSTANTS
  Bootstraps,   \* processes started as research-ops-agent bootstrap
  Onboards,     \* processes started as research-ops-agent onboard
  Keys,         \* provider ids and instrument keys
  Values,       \* list -> categories settings.py allows, and connector kinds
  Modules,      \* provider ids with a connector module of their own
  Initial,      \* the configuration the repository starts with
  Drafts,       \* what a valid ProvisioningDraft may hold
  Descriptors,  \* what a valid DataSourceDescriptor may hold
  MaxProposals, \* bound: branches opened
  MaxMerges     \* bound: branches merged

Lists == {"universe", "market", "context"}
Line == [list : Lists, key : Keys, value : STRING]

Commands == Bootstraps \union Onboards

ASSUME ConfigurationAssumption ==
  /\ Initial \subseteq Line
  /\ Drafts \subseteq SUBSET Line /\ Descriptors \subseteq SUBSET Line
  /\ MaxProposals \in Nat /\ MaxMerges \in Nat

OperatingBranch == 0   \* checked out, or the number of a proposal whose branch is

VARIABLES
  main,     \* the configurations the operating branch has held, oldest first
  tree,     \* the branch that is checked out
  made,     \* the proposal branches, in the order they were written
  listed,   \* those with a row in the proposals table
  merged,   \* those that were merged
  pc,       \* command -> next step
  todo,     \* command -> vendors its loop has still to visit
  usable,   \* command -> vendors with a healthy, non-empty catalog
  work,     \* command -> the draft at hand and what was read to render it
  owed,     \* history: command -> configured vendors it wrote no propose row for
  outcome   \* history: command -> how its last bootstrap ended

branches == <<main, tree, made, listed, merged>>
loop == <<todo, usable, owed, outcome>>
vars == <<branches, pc, loop, work>>

Kind == {"data_source", "onboarding"}

Work == [kind : Kind, draft : SUBSET Line, read : SUBSET Line, from : Nat]
NoWork == [kind |-> "data_source", draft |-> {}, read |-> {}, from |-> OperatingBranch]

Made == [work : Work, base : Nat \ {0}, lines : SUBSET Line]

Tip == main[Len(main)]
Branches == 1..Len(made)

\* What load_config and _render_file_changes read from disk.
OnDisk == IF tree = OperatingBranch THEN Tip ELSE made[tree].lines

\* load_config: every value is one the settings models allow.
Loads(config) == \A line \in config : line.value \in Values[line.list]

\* registry: a provider has a module, or its entry says it is declarative.
Buildable(config) ==
  \A line \in config : line.list # "universe" =>
    \/ line.key \in Modules
    \/ [line EXCEPT !.value = "declarative"] \in config

Configured(config) == {line.key : line \in {e \in config : e.list # "universe"}}

FileOf(line) == IF line.list = "universe" THEN "default" ELSE "providers"

-----------------------------------------------------------------------------
(***************************************************************************)
(* Rendering.                                                              *)
(***************************************************************************)

\* An instrument key the universe already has is not drafted again.
IsNew(line, config) ==
  line.list = "universe" => \A e \in config : e.list = "universe" => e.key # line.key

\* Onboarding replaces the provider's entry, if its list has one.
Replaces(w, line) ==
  w.kind = "onboarding" /\ \E e \in w.draft : e.list = line.list /\ e.key = line.key

\* Mutant: the new list holds the drafted entries only.
RenderDraftOnly(w) == w.draft

Rendered(w) ==
  {line \in w.read : ~Replaces(w, line)} \union {line \in w.draft : IsNew(line, w.read)}

\* The files a proposal changes; none means no proposal.
FilesOf(w) == {FileOf(line) : line \in {e \in w.draft : IsNew(e, w.read)}}

\* The tree of the commit: rendered files over the files of the base.
LinesOf(w, base) ==
  {line \in base : FileOf(line) \notin FilesOf(w)}
    \union {line \in Rendered(w) : FileOf(line) \in FilesOf(w)}

Merge3(base, ours, theirs) == (ours \ (base \ theirs)) \union (theirs \ base)

-----------------------------------------------------------------------------
Init ==
  /\ main = <<Initial>>
  /\ tree = OperatingBranch
  /\ made = <<>>
  /\ listed = {} /\ merged = {}
  /\ pc = [c \in Commands |-> "idle"]
  /\ todo = [c \in Commands |-> {}] /\ usable = todo /\ owed = todo
  /\ work = [c \in Commands |-> NoWork]
  /\ outcome = [c \in Commands |-> "none"]

Goto(c, place) == pc' = [pc EXCEPT ![c] = place]

\* The process ends; its locals go with it.
Finish(c) ==
  /\ Goto(c, "idle")
  /\ todo' = [todo EXCEPT ![c] = {}]
  /\ usable' = [usable EXCEPT ![c] = {}]
  /\ work' = [work EXCEPT ![c] = NoWork]

(***************************************************************************)
(* bootstrap: OpsAgent loads the configuration and the registry builds its *)
(* connectors; either may raise, and then nothing happens.                 *)
(***************************************************************************)
Bootstrap(c) ==
  /\ pc[c] = "idle"
  /\ Loads(OnDisk) /\ Buildable(OnDisk)
  /\ todo' = [todo EXCEPT ![c] = Configured(OnDisk)]
  /\ owed' = [owed EXCEPT ![c] = Configured(OnDisk)]
  /\ outcome' = [outcome EXCEPT ![c] = "none"]
  /\ Goto(c, "probe")
  /\ UNCHANGED <<branches, usable, work>>

\* Mutant: a vendor whose probe fails ends the probing.
ProbeUntilFailure(c, v) ==
  /\ pc[c] = "probe"
  /\ v \in todo[c]
  /\ \/ /\ todo' = [todo EXCEPT ![c] = @ \ {v}]
        /\ usable' = [usable EXCEPT ![c] = @ \union {v}]
        /\ UNCHANGED pc
     \/ /\ todo' = [todo EXCEPT ![c] = owed[c] \ @]
        /\ Goto(c, "interpret")
        /\ UNCHANGED usable
  /\ UNCHANGED <<branches, owed, outcome, work>>

\* probe_vendor: credentials, health and discover() may each fail, for this vendor only.
Probe(c, v) ==
  /\ pc[c] = "probe"
  /\ v \in todo[c]
  /\ todo' = [todo EXCEPT ![c] = @ \ {v}]
  /\ usable' \in {usable, [usable EXCEPT ![c] = @ \union {v}]}
  /\ UNCHANGED <<branches, pc, owed, outcome, work>>

\* probe_all returns; out of budget, with the catalogs it has got.
EndProbing(c) ==
  /\ pc[c] = "probe"
  /\ outcome' = [outcome EXCEPT ![c] = IF todo[c] = {} THEN "none" ELSE "out_of_budget"]
  /\ todo' = [todo EXCEPT ![c] = owed[c] \ @]
  /\ Goto(c, "interpret")
  /\ UNCHANGED <<branches, usable, owed, work>>

\* A propose row for vendor v.
Tell(c, v) ==
  /\ v \in todo[c]
  /\ todo' = [todo EXCEPT ![c] = @ \ {v}]
  /\ owed' = [owed EXCEPT ![c] = @ \ {v}]
  /\ UNCHANGED <<usable, outcome>>

\* interpret_catalog: no usable catalog, or an invalid draft.
DraftNothing(c, v) ==
  /\ pc[c] = "interpret"
  /\ Tell(c, v)
  /\ UNCHANGED <<branches, pc, work>>

DraftProposal(c, v, draft) ==
  /\ pc[c] = "interpret"
  /\ v \in usable[c]
  /\ Tell(c, v)
  /\ work' = [work EXCEPT ![c] = [NoWork EXCEPT !.draft = draft]]
  /\ Goto(c, "render")
  /\ UNCHANGED branches

\* guard("llm") or the backend raises, out of bootstrap.
DraftRaises(c) ==
  /\ pc[c] = "interpret"
  /\ todo[c] \intersect usable[c] # {}
  /\ outcome' = [outcome EXCEPT ![c] = "raised"]
  /\ Finish(c)
  /\ UNCHANGED <<branches, owed>>

EndBootstrap(c) ==
  /\ pc[c] = "interpret"
  /\ todo[c] = {}
  /\ outcome' = [outcome EXCEPT ![c] = IF @ = "none" THEN "returned" ELSE @]
  /\ Finish(c)
  /\ UNCHANGED <<branches, owed>>

\* onboard, when the draft is a descriptor; a limitation leaves an activity row only.
Onboard(c, descriptor) ==
  /\ pc[c] = "idle"
  /\ Loads(OnDisk)
  /\ work' = [work EXCEPT ![c] = [NoWork EXCEPT !.kind = "onboarding", !.draft = descriptor]]
  /\ Goto(c, "render")
  /\ UNCHANGED <<branches, loop>>

-----------------------------------------------------------------------------
\* Mutant: every proposal of a bootstrap is rendered over the one before it.
RenderOverLast(c) ==
  /\ pc[c] = "render"
  /\ work' = [work EXCEPT ![c].read = IF made = <<>> THEN OnDisk ELSE made[Len(made)].lines,
                          ![c].from = tree]
  /\ Goto(c, "open")
  /\ UNCHANGED <<branches, loop>>

\* The files are read from the working tree.
Render(c) ==
  /\ pc[c] = "render"
  /\ work' = [work EXCEPT ![c].read = OnDisk, ![c].from = tree]
  /\ Goto(c, "open")
  /\ UNCHANGED <<branches, loop>>

\* A command goes on where its proposal is done with.
Resume(c) ==
  /\ Goto(c, IF work[c].kind = "onboarding" THEN "idle" ELSE "interpret")
  /\ work' = [work EXCEPT ![c] = NoWork]

NothingToPropose(c) ==
  /\ pc[c] = "open"
  /\ FilesOf(work[c]) = {}
  /\ Resume(c)
  /\ UNCHANGED <<branches, loop>>

\* open_proposal up to the branch, whose base is the tip of the operating branch by now.
\* Nothing reads the branch before it has a row, so reading its base is no step of its own.
OpenBranch(c) ==
  /\ pc[c] = "open"
  /\ FilesOf(work[c]) # {}
  /\ Len(made) < MaxProposals
  /\ made' = Append(made, [work |-> work[c], base |-> Len(main),
                           lines |-> LinesOf(work[c], Tip)])
  /\ Goto(c, "list")
  /\ UNCHANGED <<main, tree, listed, merged, loop, work>>

Writes(c, p) == made[p].work = work[c] /\ p \notin listed

ListProposal(c, p) ==
  /\ pc[c] = "list"
  /\ Writes(c, p)
  /\ listed' = listed \union {p}
  /\ Resume(c)
  /\ UNCHANGED <<main, tree, made, merged, loop>>

Kill(c) ==
  /\ pc[c] # "idle"
  /\ outcome' = [outcome EXCEPT ![c] = "raised"]
  /\ Finish(c)
  /\ UNCHANGED <<branches, owed>>

(***************************************************************************)
(* The researcher.                                                         *)
(***************************************************************************)
\* To read or to edit a proposal its branch is checked out.
CheckOut(p) ==
  /\ tree' = p
  /\ UNCHANGED <<main, made, listed, merged, pc, loop, work>>

MayApprove(p) == p \in listed \ merged /\ Loads(OnDisk)

Approve(p) ==
  /\ MayApprove(p)
  /\ Len(main) <= MaxMerges
  /\ main' = Append(main, Merge3(main[made[p].base], Tip, made[p].lines))
  /\ merged' = merged \union {p}
  /\ tree' = OperatingBranch
  /\ UNCHANGED <<made, listed, pc, loop, work>>

InFile(config, file) == {line \in config : FileOf(line) = file}

\* Both sides changed a file: git may not know how to merge it, and nothing is approved.
MergeConflicts(p) ==
  /\ MayApprove(p)
  /\ \E file \in {"default", "providers"} :
       InFile(main[made[p].base], file) \notin {InFile(Tip, file), InFile(made[p].lines, file)}
  /\ tree' = OperatingBranch
  /\ UNCHANGED <<main, made, listed, merged, pc, loop, work>>

-----------------------------------------------------------------------------
BootstrapStep(c) ==
  \/ Bootstrap(c) \/ EndProbing(c) \/ DraftRaises(c) \/ EndBootstrap(c)
  \/ \E v \in Keys :
       \/ Probe(c, v) \/ DraftNothing(c, v)
       \/ \E draft \in Drafts : DraftProposal(c, v, draft)

ProposeStep(c) ==
  \/ Render(c) \/ NothingToPropose(c) \/ OpenBranch(c)
  \/ \E p \in Branches : ListProposal(c, p)

Next ==
  \/ \E c \in Bootstraps : BootstrapStep(c)
  \/ \E c \in Onboards, descriptor \in Descriptors : Onboard(c, descriptor)
  \/ \E c \in Commands : ProposeStep(c) \/ Kill(c)
  \/ \E p \in {OperatingBranch} \union listed : CheckOut(p)
  \/ \E p \in Branches : Approve(p) \/ MergeConflicts(p)

Spec == Init /\ [][Next]_vars

-----------------------------------------------------------------------------
(***************************************************************************)
(* Properties.                                                             *)
(***************************************************************************)
TypeOK ==
  /\ main \in Seq(SUBSET Line) /\ main # <<>>
  /\ tree \in {OperatingBranch} \union Branches
  /\ made \in Seq(Made)
  /\ listed \subseteq Branches /\ merged \subseteq Branches
  /\ pc \in [Commands -> {"idle", "probe", "interpret", "render", "open", "list"}]
  /\ todo \in [Commands -> SUBSET Keys] /\ usable \in [Commands -> SUBSET Keys]
  /\ work \in [Commands -> Work]
  /\ owed \in [Commands -> SUBSET Keys]
  /\ outcome \in [Commands -> {"none", "out_of_budget", "raised", "returned"}]

\* What was drafted by the proposals that were merged.
Approved == Initial \union UNION {made[p].work.draft : p \in merged}

RenderedFromOperatingBranch == \A p \in merged : made[p].work.from = OperatingBranch

\* SC-002, "zero configuration changes take effect unapproved": as long as no merged
\* proposal was rendered while some proposal's branch was checked out, each line in
\* effect was there at first or is part of a draft that was approved, however many
\* proposals are opened from the same files and in whatever order they are merged.
OnlyApprovedInEffect == RenderedFromOperatingBranch => Tip \subseteq Approved

\* Approving a proposal takes nothing away but the entry an onboarding replaces and what
\* was approved after the proposal's files were read and before its base was.
ApprovedLinesStay ==
  [][\A line \in Tip \ Tip' :
       \E p \in merged' \ merged :
         Replaces(made[p].work, line) \/ line \notin made[p].work.read]_vars

\* Acceptance 1.3: a vendor that cannot be reached or described keeps no other vendor from
\* its answer.  A bootstrap that returns has written a propose row for every vendor that
\* was configured, unless the budget ran out.
VendorsAreAnswered ==
  \A c \in Commands : outcome[c] = "returned" => owed[c] = {}

(***************************************************************************)
(* What the documents say and the code does not do.                        *)
(***************************************************************************)

\* SC-002 as it stands: false once a proposal is rendered from another one's branch.
NothingUnapprovedInEffect == Tip \subseteq Approved

\* models.py: the draft models mirror those of the settings.  An approved draft with a
\* category of its own invention ends every command that loads the configuration.
ApprovedConfigurationLoads == Loads(Tip)
=============================================================================
