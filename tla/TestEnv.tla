------------------------------ MODULE TestEnv -------------------------------
(***************************************************************************)
(* The live-test fixture: devdev-test-env (crates/devdev-test-env) brings  *)
(* the host to what the manifest says (apply), compares (verify) and       *)
(* sweeps comments (reset-comments), while tests use the adapters of       *)
(* HostAdapters on the fixture's pull request and people edit it.          *)
(*                                                                         *)
(* A run is one invocation of the program.  It may fail at any request,    *)
(* before or after the host acted on it.  One host is modelled, GitHub or  *)
(* Azure DevOps; of the other, what matters here is that its part may fail *)
(* before or after this one.  The manifest has one fixture file.           *)
(***************************************************************************)
EXTENDS HostAdapters

CONSTANTS Runs   (* bound: invocations of the program                      *)

VARIABLES
  tool,   (* what each run is doing                                        *)
  lock,   (* manifest.lock.json: 0 when there is none, or the PR's number  *)
  torn,   (* the file was being written when its run ended                 *)
  applied (* history: an apply succeeded and nobody has edited since       *)

env  == << tool, lock, torn, applied >>
vars == << host, adapters, env >>

(* quiet: nobody edited since the run started; clean: at its start the     *)
(* host was as the manifest says; stray: what a sweep then had to delete.  *)
Fresh == [pc |-> "ready", sha |-> "", pr |-> 0, todo |-> {},
          quiet |-> FALSE, clean |-> FALSE, stray |-> {}]

Matches(n) == n \in Numbers /\ prs[n].title /\ prs[n].body /\ prs[n].open
Clean ==
  /\ repo.exists /\ repo.branch
  /\ provider = "github" => repo.file = "current"
  /\ \E n \in Numbers : Matches(n)

At(r, from, to) == tool[r].pc = from /\ tool' = [tool EXCEPT ![r].pc = to]
Ends(r)         == tool' = [tool EXCEPT ![r].pc = "failed"]
(* A write of the tool changes no listing of pull requests or comments but *)
(* what Observed records.                                                  *)
Writes  == call' = Observed(call, prs', comments') /\ UNCHANGED << provider, edits, faults, lock, torn, applied >>
Nothing == UNCHANGED << host, adapters, lock, torn, applied >>

-----------------------------------------------------------------------------
(* apply *)

(* Reading a torn lock fails.  The other host comes first when this one is *)
(* Azure DevOps; that its part failed is Stop.                             *)
Apply(r) ==
  /\ tool[r].pc = "ready"
  /\ tool' = [tool EXCEPT ![r].pc = IF torn THEN "failed" ELSE "repo",
                          ![r].clean = Clean, ![r].quiet = TRUE]
  /\ Nothing

(* ensure_repo: the repository is created when the read found none.        *)
GetRepo(r) == At(r, "repo", IF repo.exists THEN "head" ELSE "mkrepo") /\ Nothing

CreateRepo(r) ==
  /\ At(r, "mkrepo", "head") /\ ~repo.exists
  /\ repo' = [repo EXCEPT !.exists = TRUE]
  /\ UNCHANGED << prs, comments >> /\ Writes

(* branch_head_sha of the default branch, and on Azure DevOps of the       *)
(* fixture branch, which only people create.                               *)
HeadSha(r) ==
  /\ repo.exists /\ (provider = "ado" => repo.branch)
  /\ At(r, "head", IF provider = "github" THEN "branch" ELSE "pr")
  /\ Nothing

(* ensure_fixture_branch *)
GetBranch(r) == At(r, "branch", IF repo.branch THEN "file" ELSE "mkbranch") /\ Nothing

CreateBranch(r) ==
  /\ At(r, "mkbranch", "file") /\ ~repo.branch
  /\ repo' = [repo EXCEPT !.branch = TRUE]
  /\ UNCHANGED << prs, comments >> /\ Writes

(* ensure_fixture_files: GitHub breaks the content into lines, which the   *)
(* comparison takes out again.  The write names the version it replaces.   *)
SameRaw(file) == FALSE           (* mutant: the line breaks are left in   *)
Same(file) == file = "current"

GetFile(r) ==
  /\ tool[r].pc = "file" /\ repo.branch
  /\ tool' = [tool EXCEPT ![r].pc = IF Same(repo.file) THEN "pr" ELSE "putfile",
                          ![r].sha = repo.file]
  /\ Nothing

PutFile(r) ==
  /\ At(r, "putfile", "pr") /\ repo.file = tool[r].sha
  /\ repo' = [repo EXCEPT !.file = "current"]
  /\ UNCHANGED << prs, comments >> /\ Writes

(* ensure_canonical_pr: the open pull request with the manifest's title;   *)
(* its body is repaired.                                                   *)
FoundAnyState == {n \in Numbers : prs[n].title}   (* mutant: state=all *)
Found == {n \in Numbers : prs[n].title /\ prs[n].open}

ListPrs(r) ==
  /\ tool[r].pc = "pr"
  /\ LET n == IF Found = {} THEN 0 ELSE Max(Found)
     IN  tool' = [tool EXCEPT ![r].pr = n, ![r].pc =
                    IF n = 0 THEN "mkpr" ELSE IF prs[n].body THEN "other" ELSE "patch"]
  /\ Nothing

PatchBody(r) ==
  /\ At(r, "patch", "other")
  /\ prs' = [prs EXCEPT ![tool[r].pr].body = TRUE]
  /\ UNCHANGED << repo, comments >> /\ Writes

CreatePr(r) ==
  /\ tool[r].pc = "mkpr" /\ CanOpenCanonical
  /\ prs' = Append(prs, NewPr(TRUE))
  /\ tool' = [tool EXCEPT ![r].pc = "other", ![r].pr = Len(prs')]
  /\ UNCHANGED << repo, comments >> /\ Writes

(* The other host's part, or --skip; then the lock is written in place.    *)
WriteLock(r) ==
  /\ At(r, "other", "applied")
  /\ lock' = tool[r].pr /\ torn' = FALSE
  /\ applied' = tool[r].quiet
  /\ UNCHANGED << host, adapters >>

TearLock(r) ==
  /\ At(r, "other", "failed")
  /\ torn' = TRUE /\ applied' = FALSE
  /\ UNCHANGED << host, adapters, lock >>

-----------------------------------------------------------------------------
(* verify and reset-comments *)

Verified == ~torn /\ Matches(lock)

Verify(r) ==
  /\ At(r, "ready", IF Verified THEN "matches" ELSE "failed")
  /\ Nothing

ShouldDelete(c) == c.admin => c.tagged

(* Comments the sweep reads: the first page of the conversation on GitHub, *)
(* the threads that are not closed on Azure DevOps, whoever made them.     *)
Swept(i) ==
  LET c == comments[i]
  IN  /\ c.pr = lock /\ ~c.deleted
      /\ IF provider = "github" THEN c.kind = "talk" ELSE ~c.done
FirstPage(S) == {i \in S : Cardinality({j \in S : j < i}) < PageSize}
SweepList ==
  LET all == {i \in DOMAIN comments : Swept(i)}
  IN  IF provider = "github" THEN FirstPage(all) ELSE all
Stray == {i \in SweepList : ShouldDelete(comments[i])}

ListComments(r) ==
  /\ tool[r].pc = "ready" /\ ~torn /\ lock \in Numbers
  /\ tool' = [tool EXCEPT ![r].pc = "sweep", ![r].stray = Stray, ![r].todo = Stray]
  /\ Nothing

(* The next deletion, oldest comment first; an error ends the sweep.       *)
(* Comments of the host are not deletable.                                 *)
Deletable(i) == ~comments[i].deleted /\ comments[i].kind # "system"

DeleteSkipping(r) ==             (* mutant: an error goes on with the next *)
  /\ tool[r].pc = "sweep" /\ tool[r].todo # {}
  /\ LET i == Min(tool[r].todo)
     IN  /\ comments' = [comments EXCEPT ![i].deleted = @ \/ Deletable(i)]
         /\ tool' = [tool EXCEPT ![r].todo = @ \ {i}]
  /\ UNCHANGED << repo, prs >> /\ Writes

Delete(r) ==
  /\ tool[r].pc = "sweep" /\ tool[r].todo # {}
  /\ LET i == Min(tool[r].todo)
     IN  /\ Deletable(i)
         /\ comments' = [comments EXCEPT ![i].deleted = TRUE]
         /\ tool' = [tool EXCEPT ![r].todo = @ \ {i}]
  /\ UNCHANGED << repo, prs >> /\ Writes

SweepDone(r) ==
  /\ tool[r].todo = {}
  /\ At(r, "sweep", "swept")
  /\ Nothing

-----------------------------------------------------------------------------
WritePcs == {"mkrepo", "mkbranch", "putfile", "patch", "mkpr"}
Busy     == {"repo", "head", "branch", "file", "pr", "other", "sweep"} \cup WritePcs

Write(r) ==
  \/ CreateRepo(r) \/ CreateBranch(r) \/ PutFile(r) \/ PatchBody(r) \/ CreatePr(r) \/ Delete(r)

(* A request fails, the other host's part fails, or the host refuses (the  *)
(* thing is there already, or gone): the run ends with an error.           *)
Stop(r) ==
  /\ tool[r].pc \in Busy
  /\ Ends(r)
  /\ Nothing

(* The host acted, but its answer was lost.                                *)
LoseAnswer(r) ==
  /\ faults < MaxFaults
  /\ faults' = faults + 1
  /\ tool[r].pc \in {"mkpr", "mkbranch", "mkrepo"}
  /\ \/ /\ tool[r].pc = "mkpr" /\ CanOpenCanonical
        /\ prs' = Append(prs, NewPr(TRUE)) /\ UNCHANGED repo
     \/ /\ tool[r].pc = "mkbranch" /\ ~repo.branch
        /\ repo' = [repo EXCEPT !.branch = TRUE] /\ UNCHANGED prs
     \/ /\ tool[r].pc = "mkrepo" /\ ~repo.exists
        /\ repo' = [repo EXCEPT !.exists = TRUE] /\ UNCHANGED prs
  /\ Ends(r)
  /\ call' = Observed(call, prs', comments)
  /\ UNCHANGED << provider, comments, edits, lock, torn, applied >>

RunStep(r) ==
  \/ Apply(r) \/ GetRepo(r) \/ HeadSha(r) \/ GetBranch(r) \/ GetFile(r) \/ ListPrs(r)
  \/ Write(r) \/ WriteLock(r) \/ TearLock(r) \/ Verify(r)
  \/ ListComments(r) \/ SweepDone(r) \/ Stop(r) \/ LoseAnswer(r)

(* Edits by others.                                                        *)
OthersEdit ==
  /\ \/ OpenOther \/ PushFixture \/ Remark("talk") \/ Remark("system")
     \/ \E n \in Numbers : Close(n) \/ EditBody(n)
     \/ \E i \in DOMAIN comments : CloseThread(i)
  /\ Edited
  /\ tool' = [r \in Runs |-> [tool[r] EXCEPT !.quiet = FALSE]]
  /\ applied' = FALSE
  /\ UNCHANGED << lock, torn >>

Init ==
  /\ provider \in {"github", "ado"}
  /\ repo = [exists |-> FALSE, branch |-> FALSE, file |-> "none"]
  /\ prs = << >> /\ comments = << >> /\ edits = 0
  /\ call = [c \in Callers |-> Idle] /\ faults = 0
  /\ tool = [r \in Runs |-> Fresh]
  /\ lock = 0 /\ torn = FALSE /\ applied = FALSE

Next ==
  \/ OthersEdit
  \/ \E c \in Callers : CallerStep(c) /\ UNCHANGED env
  \/ \E r \in Runs : RunStep(r)

Spec == Init /\ [][Next]_vars

-----------------------------------------------------------------------------
(* After an apply that succeeded the fixture is what the manifest says and *)
(* verify says so, until somebody edits it: also when other applies failed *)
(* half way, and when tests and sweeps run.                                *)
AppliedIsVerified == applied => Clean /\ Verified

(* An apply that found the fixture as the manifest says writes nothing:    *)
(* lib.rs, "Idempotent by construction".                                   *)
CleanApplyWritesNothing ==
  \A r \in Runs : tool[r].clean /\ tool[r].quiet => tool[r].pc \notin WritePcs

(* A sweep that succeeded deleted every stray comment there was when it    *)
(* listed them, within what it lists: nothing is skipped over.             *)
SweepComplete ==
  \A r \in Runs : tool[r].pc = "swept" => \A i \in tool[r].stray : comments[i].deleted

(* What the documentation of reset.rs promises of Azure DevOps, lines 13   *)
(* to 15: the sweep skips the host's own comments, which it cannot delete. *)
(* should_delete_ado does not look at the kind of a comment.               *)
SweepSkipsSystem == \A r \in Runs : \A i \in tool[r].todo : comments[i].kind # "system"

=============================================================================
