---------------------------- MODULE HostAdapters ----------------------------
(***************************************************************************)
(* GitHubAdapter and AzureDevOpsAdapter (crates/devdev-integrations), the  *)
(* two implementations of RepoHostAdapter.  Each request is a step, so the *)
(* host changes between the pages of a listing and the parts of a review.  *)
(* A request may fail, before or after the host acted on it: every error   *)
(* (a status that is not 2xx, a body that does not parse, the connection)  *)
(* ends the call with `?`.                                                 *)
(*                                                                         *)
(* get_pr, get_pr_head_sha and GitHub's get_pr_diff are one read, and what *)
(* their callers make of it is in PrShepherd.                              *)
(***************************************************************************)
EXTENDS CodeHost

CONSTANTS
  Callers,   (* users of the adapter                                       *)
  MaxPages,  (* GitHub: max_pages                                          *)
  Reviews,   (* reviews, as numbers                                        *)
  LineParts, (* line comments of a review                                  *)
  MaxFaults  (* bound: requests that fail                                  *)

ASSUME AdaptersAssumption ==
  /\ Reviews \subseteq Nat \ {0}
  /\ {MaxPages, LineParts} \subseteq Nat \ {0} /\ MaxFaults \in Nat

VARIABLES
  call,   (* what each caller is doing                                     *)
  faults

adapters == << call, faults >>

(* found, page: the listing so far.  history: what was listed at the       *)
(* start (from), has left since (left), was ever at a place in the list    *)
(* that the adapter does not read (beyond), and whether something came in  *)
(* (came).                                                                 *)
Idle == [op |-> "idle", page |-> 0, found |-> << >>, from |-> {}, left |-> {},
         came |-> FALSE, beyond |-> {}, review |-> 0, part |-> 0]

Listing(op) == IF op = "prs" THEN OpenPrs ELSE PrComments
Listed(op) == ToSet(Listing(op))

(* What one call can read of a list: GitHub's page limit; Azure DevOps'    *)
(* list of pull requests is its first answer, its threads come as one.     *)
Reach(op) ==
  CASE provider = "github" -> MaxPages * PageSize
    [] provider = "ado" /\ op = "prs" -> PageSize
    [] OTHER -> MaxComments

ListingOver(op) == IF op = "prs" THEN "listed_prs" ELSE "listed_comments"

(* The order of a list: pull requests the newest first.                    *)
Before(op, x, y) == IF op = "listed_prs" THEN x > y ELSE x < y

(* The entries of a list that are at a place the adapter does not read.    *)
BeyondReach(op, now) ==
  {x \in now : Cardinality({y \in now : y = x \/ Before(ListingOver(op), y, x)}) > Reach(op)}

(* A step of anybody is seen by the history of the listings under way.     *)
Observed(calls, newPrs, newComments) ==
  [c \in Callers |->
     IF calls[c].op \notin {"prs", "comments"} THEN calls[c]
     ELSE LET isPr    == calls[c].op = "prs"
              now     == IF isPr THEN {n \in DOMAIN newPrs : newPrs[n].open}
                         ELSE {i \in DOMAIN newComments : Shown(newComments[i])}
              before  == Listed(calls[c].op)
          IN  [calls[c] EXCEPT !.left = @ \cup (before \ now),
                               !.came = @ \/ ~(now \subseteq before),
                               !.beyond = @ \cup BeyondReach(calls[c].op, now)]]

Edited == call' = Observed(call, prs', comments') /\ UNCHANGED faults

-----------------------------------------------------------------------------
(* list_open_prs and list_pr_comments *)

BeginListing(c, op) ==
  /\ call[c].op = "idle"
  /\ call' = [call EXCEPT ![c] = [Idle EXCEPT !.op = op, !.page = 1, !.from = Listed(op),
                                    !.beyond = BeyondReach(op, Listed(op))]]
  /\ UNCHANGED << host, faults >>

LastPage(k) == k + 1 > MaxPages
LastPageEarly(k) == k + 1 >= MaxPages      (* mutant: the last page is not read *)
Finished(k) == LastPage(k)

(* GitHub: pages until one is empty, or max_pages.  Azure DevOps: one      *)
(* answer, whatever continuation it offers.                                *)
NextPage(c) ==
  LET a    == call[c]
      list == Listing(a.op)
      page == IF provider = "ado" THEN Slice(list, 1, Reach(a.op)) ELSE Page(list, a.page)
      over == provider = "ado" \/ page = << >> \/ Finished(a.page)
  IN  /\ a.op \in {"prs", "comments"}
      /\ call' = [call EXCEPT ![c].found = @ \o page, ![c].page = @ + 1,
                              ![c].op = IF over THEN ListingOver(@) ELSE @]
      /\ UNCHANGED << host, faults >>

Take(c) ==
  /\ call[c].op \in {"listed_prs", "listed_comments"}
  /\ call' = [call EXCEPT ![c] = Idle]
  /\ UNCHANGED << host, faults >>

-----------------------------------------------------------------------------
(* post_review and post_comment *)

LineComment(r) == NewComment(Commented, "line", FALSE, TRUE, r)
Talk(r)        == NewComment(Commented, "talk", FALSE, TRUE, r)

(* The parts of a review in the order they are posted: the summary, the    *)
(* line comments, and last the vote.  GitHub takes them in one request.    *)
VoteFirst(k) == (k + LineParts + 1) % (LineParts + 2)   (* mutant: the vote goes first *)
Part(k) == k

BeginReview(c, r) ==
  /\ call[c].op = "idle" /\ Canonical # {}
  /\ call' = [call EXCEPT ![c] = [Idle EXCEPT !.op = "review", !.review = r]]
  /\ UNCHANGED << host, faults >>

(* What the request of part k of review r does.                            *)
Voted(r) == prs' = [prs EXCEPT ![Commented].votes = @ \cup {r}]

Posted(r, k) ==
  /\ \/ /\ provider = "github"
        /\ Len(comments) + LineParts <= MaxComments
        /\ comments' = comments \o [i \in 1..LineParts |-> LineComment(r)]
        /\ Voted(r)
     \/ /\ provider = "ado" /\ Part(k) = LineParts + 1
        /\ Voted(r) /\ UNCHANGED comments
     \/ /\ provider = "ado" /\ Part(k) <= LineParts
        /\ Len(comments) < MaxComments
        /\ comments' = Append(comments, IF Part(k) = 0 THEN Talk(r) ELSE LineComment(r))
        /\ UNCHANGED prs
  /\ UNCHANGED << provider, repo, edits >>

LastPart(k) == provider = "github" \/ k = LineParts + 1

PostPart(c) ==
  LET a == call[c]
  IN  /\ a.op = "review"
      /\ Posted(a.review, a.part)
      /\ call' = Observed([call EXCEPT ![c] = IF LastPart(a.part) THEN Idle
                                              ELSE [a EXCEPT !.part = @ + 1]],
                          prs', comments')
      /\ UNCHANGED faults

PostComment(c) ==
  /\ call[c].op = "idle" /\ Canonical # {} /\ Len(comments) < MaxComments
  /\ comments' = Append(comments, Talk(0))
  /\ call' = Observed(call, prs, comments')
  /\ UNCHANGED << provider, repo, prs, edits, faults >>

(* The request fails; the host may have acted on it all the same.  The     *)
(* caller may call again.                                                  *)
Fail(c) ==
  LET a == call[c]
  IN  /\ a.op \in {"prs", "comments", "review"} /\ faults < MaxFaults
      /\ faults' = faults + 1
      /\ \/ UNCHANGED host
         \/ a.op = "review" /\ Posted(a.review, a.part)
      /\ call' = Observed([call EXCEPT ![c] = Idle], prs', comments')

CallerStep(c) ==
  \/ \E op \in {"prs", "comments"} : BeginListing(c, op)
  \/ NextPage(c) \/ Take(c) \/ PostPart(c) \/ PostComment(c) \/ Fail(c)
  \/ \E r \in Reviews : BeginReview(c, r)

-----------------------------------------------------------------------------
(* An entry that is listed from the start of a call to its end is in its   *)
(* result, although the list shifts between the pages, unless an entry     *)
(* before it left or it was itself, during the call, at a place in the     *)
(* list beyond those the adapter reads; and it is there twice only if      *)
(* something came in.                                                      *)
ListingExact ==
  \A c \in Callers :
    LET a == call[c]
    IN  a.op \in {"listed_prs", "listed_comments"} =>
          /\ \A x \in a.from \ a.left :
               \/ x \in ToSet(a.found)
               \/ x \in a.beyond
               \/ \E y \in a.left : Before(a.op, y, x)
          /\ a.came \/ IsInjective(a.found)

(* What is said of list_open_prs, that it follows the continuationToken    *)
(* (azure_devops.rs:38-39) and that its callers receive the flat union of  *)
(* the pages (lib.rs:109-111), asks for no such excuse: where nothing left *)
(* during a call, all that was listed is in its result.  The code does not *)
(* keep this: it follows no token, and on GitHub it stops at max_pages.    *)
ListingFlat ==
  \A c \in Callers :
    call[c].op = "listed_prs" /\ call[c].left = {} => call[c].from \subseteq ToSet(call[c].found)

(* A vote of a review is on the host only with all its line comments,      *)
(* through failures, lost answers and new attempts: a PR is never approved *)
(* or blocked without the reasons.                                         *)
VoteHasReasons ==
  \A n \in Numbers : \A r \in prs[n].votes :
    Cardinality({i \in DOMAIN comments : comments[i].of = r /\ comments[i].kind = "line"}) >= LineParts

=============================================================================
