------------------------------ MODULE CodeHost ------------------------------
(***************************************************************************)
(* The code host as its clients see it: one repository with its pull       *)
(* requests and their comments, on GitHub or on Azure DevOps.  The host is *)
(* not part of this repository; what it answers is taken from how the      *)
(* adapters (crates/devdev-integrations) and the fixture provisioner       *)
(* (crates/devdev-test-env) use it.  Everything people and git do to it is *)
(* an edit, of which there are at most MaxEdits.                           *)
(***************************************************************************)
EXTENDS Naturals, FiniteSets, SequencesExt, Ordered

CONSTANTS
  MaxPrs,      (* bound: pull requests ever opened                         *)
  MaxComments, (* bound: comments ever made                                *)
  PageSize,    (* entries on a page of an answer (100)                     *)
  MaxEdits     (* bound: edits by others                                   *)

ASSUME CodeHostAssumption ==
  /\ {MaxPrs, MaxComments, MaxEdits} \subseteq Nat
  /\ PageSize \in Nat \ {0}

VARIABLES
  provider, (* "github" or "ado"; never changes                            *)
  repo,     (* whether it exists, its fixture branch and the file on it    *)
  prs,      (* the pull requests; a PR's number is its place               *)
  comments, (* the comments of the canonical pull requests, oldest first   *)
  edits

host == << provider, repo, prs, comments, edits >>

Numbers == DOMAIN prs

(* title: it is the manifest's; body: likewise; votes: the reviews that    *)
(* voted.                                                                  *)
NewPr(title) == [title |-> title, body |-> TRUE, open |-> TRUE, votes |-> {}]

(* kind: in the conversation, on a line of the diff, or made by the host;  *)
(* admin: written by the fixture's admin; tagged: carries the test tag;    *)
(* of: the review it belongs to; done: its thread is closed.               *)
NewComment(n, kind, admin, tagged, of) ==
  [pr |-> n, kind |-> kind, admin |-> admin, tagged |-> tagged, of |-> of,
   done |-> FALSE, deleted |-> FALSE]

(* The pull request tests and people comment on.                           *)
Canonical == {n \in Numbers : prs[n].title}
Commented == Max(Canonical)

(* The list of open pull requests, newest first; the comments, oldest      *)
(* first, which are on GitHub the line comments only.                      *)
OpenPrs == Reverse(InOrder({n \in Numbers : prs[n].open}))
Shown(c) == (provider = "github" => c.kind = "line") /\ ~c.deleted
PrComments == InOrder({i \in DOMAIN comments : Shown(comments[i])})

Slice(list, from, to) == SubSeq(list, from, Min({to, Len(list)}))
Page(list, k) == Slice(list, (k - 1) * PageSize + 1, k * PageSize)

(* A second open pull request of the fixture branch is refused.            *)
CanOpenCanonical ==
  /\ repo.branch /\ Len(prs) < MaxPrs
  /\ \A n \in Numbers : prs[n].open => ~prs[n].title

-----------------------------------------------------------------------------
(* Edits by others. *)
Edit == edits < MaxEdits /\ edits' = edits + 1 /\ UNCHANGED provider

OpenOther ==
  /\ Edit /\ repo.exists /\ Len(prs) < MaxPrs
  /\ prs' = Append(prs, NewPr(FALSE))
  /\ UNCHANGED << repo, comments >>

Close(n) ==
  /\ Edit /\ prs[n].open
  /\ prs' = [prs EXCEPT ![n].open = FALSE]
  /\ UNCHANGED << repo, comments >>

EditBody(n) ==
  /\ Edit /\ prs[n].title /\ prs[n].open
  /\ prs' = [prs EXCEPT ![n].body = ~@]
  /\ UNCHANGED << repo, comments >>

(* A commit on the fixture branch that changes the fixture's file.  On     *)
(* Azure DevOps the branch itself is pushed by hand.                       *)
PushFixture ==
  /\ Edit /\ repo.exists
  /\ repo.branch \/ provider = "ado"
  /\ repo' = [repo EXCEPT !.branch = TRUE, !.file = "stale"]
  /\ UNCHANGED << prs, comments >>

(* A note of the admin.  Votes and policies leave comments of the host's   *)
(* own on Azure DevOps.                                                    *)
Remark(kind) ==
  /\ Edit /\ Len(comments) < MaxComments /\ Canonical # {}
  /\ kind = "system" => provider = "ado"
  /\ comments' = Append(comments, NewComment(Commented, kind, kind = "talk", FALSE, 0))
  /\ UNCHANGED << repo, prs >>

CloseThread(i) ==
  /\ Edit /\ provider = "ado" /\ ~comments[i].done
  /\ comments' = [comments EXCEPT ![i].done = TRUE]
  /\ UNCHANGED << repo, prs >>

=============================================================================
