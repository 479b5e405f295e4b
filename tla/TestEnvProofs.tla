--------------------------- MODULE TestEnvProofs ---------------------------
(***************************************************************************)
(* Proofs about the code host's clients, for every number of callers,      *)
(* runs, pull requests, comments and failures: a review's vote never       *)
(* stands without its line comments, a listing has what was all the time   *)
(* within the adapter's reach, an apply that succeeded left the fixture as *)
(* the manifest says, one that found it so wrote nothing, and a sweep that *)
(* succeeded skipped nothing.                                              *)
(***************************************************************************)
EXTENDS TestEnv, OrderedProofs, SequenceTheorems

Files        == {"none", "stale", "current"}
Repositories == [exists : BOOLEAN, branch : BOOLEAN, file : Files]
PullRequests == [title : BOOLEAN, body : BOOLEAN, open : BOOLEAN, votes : SUBSET Reviews]
Remarks      == [pr : Nat, kind : {"talk", "line", "system"}, admin : BOOLEAN, tagged : BOOLEAN,
                 of : Nat, done : BOOLEAN, deleted : BOOLEAN]
Ops          == {"idle", "prs", "comments", "listed_prs", "listed_comments", "review"}
Pcs          == Busy \cup {"ready", "failed", "applied", "matches", "swept"}
Invocations  == [pc : Pcs, sha : Files \cup {""}, pr : Nat, todo : SUBSET Nat,
                 quiet : BOOLEAN, clean : BOOLEAN, stray : SUBSET Nat]

(* A call, whose listing so far does not matter here.                      *)
Calls(X)   == [op : Ops, page : X, found : X, from : X, left : X, came : X, beyond : X,
               review : Reviews \cup {0}, part : 0..LineParts + 1]
Kept(calls) == UNION {{calls[c].page, calls[c].found, calls[c].from, calls[c].left,
                       calls[c].came, calls[c].beyond} : c \in Callers}

HostTypes ==
  /\ provider \in {"github", "ado"}
  /\ repo \in Repositories
  /\ prs \in Seq(PullRequests)
  /\ comments \in Seq(Remarks)

CallTypes ==
  /\ call \in [Callers -> Calls(Kept(call))]
  /\ \A c \in Callers : call[c].op = "review" => call[c].review \in Reviews /\ Canonical # {}

ToolTypes ==
  /\ tool \in [Runs -> Invocations]
  /\ lock \in Nat
  /\ torn \in BOOLEAN /\ applied \in BOOLEAN

Types == HostTypes /\ CallTypes /\ ToolTypes

-----------------------------------------------------------------------------
(* The operators the host and its clients are built from. *)

(* Max finds the largest number of a set of places.                        *)
LEMMA LargestOf ==
  ASSUME NEW n \in Nat, NEW S \in SUBSET (1..n), S # {}
  PROVE  Max(S) \in S /\ \A x \in S : x <= Max(S)
<1> DEFINE T == {n - x : x \in S}
<1>1. T \subseteq Nat
  OBVIOUS
<1>2. T # {}
  OBVIOUS
<1> HIDE DEF T
<1>3. PICK y \in T : \A z \in T : ~(<< z, y >> \in OpToRel(<, Nat))
  BY <1>1, <1>2, NatLessThanWellFounded, WFMin, Zenon
<1>4. \A z \in T : ~(z < y)
  BY <1>1, <1>3 DEF OpToRel
<1>5. PICK m \in S : y = n - m
  BY <1>3 DEF T
<1>6. \A x \in S : m >= x
  <2> SUFFICES ASSUME NEW x \in S PROVE m >= x
    OBVIOUS
  <2>1. n - x \in T /\ ~(n - x < y)
    BY <1>4 DEF T
  <2> QED BY <1>5, <2>1
<1> QED
  BY <1>5, <1>6 DEF Max

(* The canonical pull request is one of the host's.                        *)
LEMMA CommentedType ==
  ASSUME HostTypes, Canonical # {}
  PROVE  Commented \in Numbers /\ Commented \in Nat
<1>1. Len(prs) \in Nat /\ Numbers = 1..Len(prs)
  BY DEF HostTypes, Numbers
<1>2. Canonical \in SUBSET (1..Len(prs))
  BY <1>1 DEF Canonical
<1>3. Commented \in Canonical
  BY <1>1, <1>2, LargestOf DEF Commented
<1> QED
  BY <1>1, <1>2, <1>3

(* What calls keep of their listings is of no consequence.                 *)
LEMMA KeptAll ==
  ASSUME NEW X, NEW calls \in [Callers -> Calls(X)]
  PROVE  calls \in [Callers -> Calls(Kept(calls))]
<1> SUFFICES ASSUME NEW c \in Callers PROVE calls[c] \in Calls(Kept(calls))
  OBVIOUS
<1>1. calls[c] \in Calls(X)
  OBVIOUS
<1>2. {calls[c].page, calls[c].found, calls[c].from, calls[c].left, calls[c].came, calls[c].beyond}
        \subseteq Kept(calls)
  BY DEF Kept
<1> QED
  BY <1>1, <1>2 DEF Calls

(* Observing a listing changes its history only.                           *)
LEMMA ObservedCalls ==
  ASSUME NEW X, NEW calls \in [Callers -> Calls(X)], NEW ps, NEW cs
  PROVE  LET after == Observed(calls, ps, cs)
         IN  /\ after \in [Callers -> Calls(Kept(after))]
             /\ \A c \in Callers : /\ after[c].op = calls[c].op
                                   /\ after[c].review = calls[c].review
                                   /\ after[c].part = calls[c].part
<1> DEFINE after == Observed(calls, ps, cs)
<1>1. ASSUME NEW c \in Callers
      PROVE  \E a, b, d : after[c] \in {calls[c], [calls[c] EXCEPT !.left = a, !.came = b, !.beyond = d]}
  <2> DEFINE isPr   == calls[c].op = "prs"
             now    == IF isPr THEN {n \in DOMAIN ps : ps[n].open}
                               ELSE {i \in DOMAIN cs : Shown(cs[i])}
             before == Listed(calls[c].op)
             left   == calls[c].left \cup (before \ now)
             came   == calls[c].came \/ ~(now \subseteq before)
             off    == calls[c].beyond \cup BeyondReach(calls[c].op, now)
  <2>1. after[c] = IF calls[c].op \notin {"prs", "comments"} THEN calls[c]
                   ELSE [calls[c] EXCEPT !.left = left, !.came = came, !.beyond = off]
    BY Zenon DEF Observed
  <2> HIDE DEF left, came, off
  <2> QED BY <2>1, Zenon
<1> HIDE DEF after
<1>2. ASSUME NEW c \in Callers
      PROVE  /\ after[c].op = calls[c].op /\ after[c].review = calls[c].review
             /\ after[c].part = calls[c].part
             /\ after[c] \in Calls(X \cup {after[c].left, after[c].came, after[c].beyond})
  <2>1. PICK a, b, d : after[c] \in {calls[c], [calls[c] EXCEPT !.left = a, !.came = b, !.beyond = d]}
    BY <1>1
  <2>2. calls[c] \in Calls(X)
    OBVIOUS
  <2> QED BY <2>1, <2>2 DEF Calls
<1> DEFINE Y == X \cup UNION {{after[c].left, after[c].came, after[c].beyond} : c \in Callers}
<1>3. ASSUME NEW c \in Callers PROVE after[c] \in Calls(Y)
  <2>1. X \cup {after[c].left, after[c].came, after[c].beyond} \subseteq Y
    OBVIOUS
  <2> HIDE DEF Y
  <2> QED BY <1>2, <2>1 DEF Calls
<1>4. after \in [Callers -> Calls(Y)]
  <2>1. after = [c \in Callers |-> after[c]]
    BY DEF after, Observed
  <2> HIDE DEF Y
  <2> QED BY <1>3, <2>1
<1>5. after \in [Callers -> Calls(Kept(after))]
  <2> HIDE DEF Y
  <2> QED BY <1>4, KeptAll
<1> QED
  BY <1>2, <1>5 DEF after

-----------------------------------------------------------------------------
(* How a step changes the host. *)

(* A vote of review v is cast.                                             *)
Votes(v) ==
  \E c \in Callers :
    /\ call[c].op = "review" /\ call[c].review = v
    /\ Posted(v, call[c].part)
    /\ provider = "github" \/ call[c].part = LineParts + 1

(* A pull request is opened; or the ones there are keep their titles and   *)
(* votes, and nobody but people closes one or spoils a body.               *)
PrsMove ==
  \/ \E b \in BOOLEAN : prs' = Append(prs, NewPr(b)) /\ (b => CanOpenCanonical)
  \/ /\ prs' \in Seq(PullRequests) /\ Len(prs') = Len(prs)
     /\ \A n \in 1..Len(prs) :
          /\ prs'[n].title = prs[n].title
          /\ prs'[n].open => prs[n].open
          /\ OthersEdit \/ (prs'[n].open = prs[n].open /\ (prs[n].body => prs'[n].body))
          /\ \A v \in prs'[n].votes \ prs[n].votes : Votes(v)

(* Comments are added and deleted, never changed.                          *)
CommentsMove ==
  /\ comments' \in Seq(Remarks) /\ Len(comments) <= Len(comments')
  /\ \A i \in 1..Len(comments) : /\ comments'[i].of = comments[i].of
                                 /\ comments'[i].kind = comments[i].kind
                                 /\ comments[i].deleted => comments'[i].deleted

(* Nothing that exists goes away; only people make the file stale.         *)
RepoMove ==
  /\ repo' \in Repositories
  /\ repo.exists => repo'.exists
  /\ repo.branch => repo'.branch
  /\ OthersEdit \/ (repo.file = "current" => repo'.file = "current")

HostMove == provider' = provider /\ PrsMove /\ CommentsMove /\ RepoMove

(* A comment is added.                                                     *)
LEMMA CommentAdded ==
  ASSUME HostTypes, NEW new \in Remarks, comments' = Append(comments, new)
  PROVE  CommentsMove
BY DEF HostTypes, CommentsMove

(* A comment is deleted, or its thread closed.                             *)
LEMMA CommentMarked ==
  ASSUME HostTypes, NEW i,
         \/ comments' = comments
         \/ comments' = [comments EXCEPT ![i].deleted = TRUE]
         \/ comments' = [comments EXCEPT ![i].done = TRUE]
  PROVE  CommentsMove
<1>1. comments \in Seq(Remarks) /\ Len(comments) \in Nat
  BY DEF HostTypes
<1>2. ASSUME NEW j \in 1..Len(comments)
      PROVE  /\ [comments[j] EXCEPT !.deleted = TRUE] \in Remarks
             /\ [comments[j] EXCEPT !.done = TRUE] \in Remarks
             /\ \A m \in {[comments[j] EXCEPT !.deleted = TRUE], [comments[j] EXCEPT !.done = TRUE]} :
                  m.of = comments[j].of /\ m.kind = comments[j].kind /\ (comments[j].deleted => m.deleted)
  <2>1. comments[j] \in Remarks
    BY <1>1
  <2> QED BY <2>1 DEF Remarks
<1>3. CASE i \notin 1..Len(comments)
  <2>1. comments' = comments
    BY <1>1, <1>3
  <2> QED BY <1>1, <2>1 DEF CommentsMove
<1>4. ASSUME NEW m \in Remarks, i \in 1..Len(comments), comments' = [comments EXCEPT ![i] = m],
             m.of = comments[i].of, m.kind = comments[i].kind, comments[i].deleted => m.deleted
      PROVE  CommentsMove
  <2>1. /\ comments' \in Seq(Remarks) /\ Len(comments') = Len(comments)
        /\ \A j \in 1..Len(comments) : comments'[j] = IF j = i THEN m ELSE comments[j]
    BY <1>1, <1>4
  <2> QED BY <1>1, <1>4, <2>1 DEF CommentsMove
<1>5. CASE i \in 1..Len(comments) /\ comments' = [comments EXCEPT ![i].deleted = TRUE]
  <2>1. comments' = [comments EXCEPT ![i] = [comments[i] EXCEPT !.deleted = TRUE]]
    BY <1>5, Zenon
  <2> QED BY <1>2, <1>4, <1>5, <2>1
<1>6. CASE i \in 1..Len(comments) /\ comments' = [comments EXCEPT ![i].done = TRUE]
  <2>1. comments' = [comments EXCEPT ![i] = [comments[i] EXCEPT !.done = TRUE]]
    BY <1>6, Zenon
  <2> QED BY <1>2, <1>4, <1>6, <2>1
<1>7. CASE comments' = comments
  <2>1. comments \in Seq(Remarks) /\ Len(comments) <= Len(comments)
    BY <1>1
  <2> QED BY <1>7, <2>1, Zenon DEF CommentsMove
<1> QED
  BY <1>3, <1>5, <1>6, <1>7

(* A pull request is replaced by what differs from it as PrsMove allows.   *)
LEMMA PrReplaced ==
  ASSUME HostTypes, NEW n, NEW q \in PullRequests, n \in 1..Len(prs), prs' = [prs EXCEPT ![n] = q],
         q.title = prs[n].title, q.open => prs[n].open,
         OthersEdit \/ (q.open = prs[n].open /\ (prs[n].body => q.body)),
         \A v \in q.votes \ prs[n].votes : Votes(v)
  PROVE  PrsMove
<1>1. prs \in Seq(PullRequests) /\ Len(prs) \in Nat
  BY DEF HostTypes
<1>2. /\ prs' \in Seq(PullRequests) /\ Len(prs') = Len(prs)
      /\ \A m \in 1..Len(prs) : prs'[m] = IF m = n THEN q ELSE prs[m]
  BY <1>1
<1> QED
  BY <1>1, <1>2 DEF PrsMove

(* What others edit.                                                       *)
LEMMA EditMoves == ASSUME HostTypes, OthersEdit PROVE HostMove
<1>1. /\ prs \in Seq(PullRequests) /\ Len(prs) \in Nat
      /\ comments \in Seq(Remarks) /\ repo \in Repositories
  BY DEF HostTypes
<1>2. UNCHANGED prs => PrsMove
  BY <1>1 DEF PrsMove
<1>3. UNCHANGED comments => CommentsMove
  BY <1>1 DEF CommentsMove
<1>4. UNCHANGED repo => RepoMove
  BY <1>1 DEF RepoMove
<1>5. provider' = provider
  BY DEF OthersEdit, OpenOther, PushFixture, Remark, Close, EditBody, CloseThread, Edit
<1>6. CASE OpenOther
  BY <1>3, <1>4, <1>5, <1>6 DEF OpenOther, HostMove, PrsMove
<1>7. CASE PushFixture
  <2>1. repo' = [repo EXCEPT !.branch = TRUE, !.file = "stale"] /\ UNCHANGED << prs, comments >>
    BY <1>7 DEF PushFixture
  <2>2. RepoMove
    BY <1>1, <2>1 DEF RepoMove, Repositories, Files
  <2> QED BY <1>2, <1>3, <1>5, <2>1, <2>2 DEF HostMove
<1>8. ASSUME NEW kind \in {"talk", "system"}, Remark(kind) PROVE HostMove
  <2>1. /\ comments' = Append(comments, NewComment(Commented, kind, kind = "talk", FALSE, 0))
        /\ Canonical # {} /\ UNCHANGED << repo, prs >>
    BY <1>8 DEF Remark
  <2>2. Commented \in Nat
    BY <2>1, CommentedType
  <2>3. NewComment(Commented, kind, kind = "talk", FALSE, 0) \in Remarks
    BY <2>2 DEF NewComment, Remarks
  <2>4. CommentsMove
    BY <2>1, <2>3, CommentAdded
  <2> QED BY <1>2, <1>4, <1>5, <2>1, <2>4 DEF HostMove
<1>9. ASSUME NEW n \in Numbers, Close(n) \/ EditBody(n) PROVE HostMove
  <2>1. n \in 1..Len(prs) /\ prs[n] \in PullRequests /\ UNCHANGED << repo, comments >>
    BY <1>1, <1>9 DEF Numbers, Close, EditBody
  <2>2. \/ prs' = [prs EXCEPT ![n] = [prs[n] EXCEPT !.open = FALSE]]
        \/ prs' = [prs EXCEPT ![n] = [prs[n] EXCEPT !.body = ~prs[n].body]]
    BY <1>9, Zenon DEF Close, EditBody
  <2>3. \A q \in {[prs[n] EXCEPT !.open = FALSE], [prs[n] EXCEPT !.body = ~prs[n].body]} :
          /\ q \in PullRequests /\ q.title = prs[n].title /\ (q.open => prs[n].open)
          /\ q.votes = prs[n].votes
    BY <2>1 DEF PullRequests
  <2>4. PICK q \in {[prs[n] EXCEPT !.open = FALSE], [prs[n] EXCEPT !.body = ~prs[n].body]} :
          prs' = [prs EXCEPT ![n] = q]
    BY <2>2
  <2>5. PrsMove
    BY <2>1, <2>3, <2>4, PrReplaced
  <2> QED BY <1>3, <1>4, <1>5, <2>1, <2>5 DEF HostMove
<1>10. ASSUME NEW i, CloseThread(i) PROVE HostMove
  <2>1. comments' = [comments EXCEPT ![i].done = TRUE] /\ UNCHANGED << repo, prs >>
    BY <1>10 DEF CloseThread
  <2>2. CommentsMove
    BY <2>1, CommentMarked, Zenon
  <2> QED BY <1>2, <1>4, <1>5, <2>1, <2>2 DEF HostMove
<1> QED
  BY <1>6, <1>7, <1>8, <1>9, <1>10 DEF OthersEdit

(* A part of a review is posted.                                           *)
LEMMA PostedMoves ==
  ASSUME HostTypes, CallTypes, NEW c \in Callers, call[c].op = "review",
         Posted(call[c].review, call[c].part)
  PROVE  HostMove
<1> DEFINE v == call[c].review
           k == call[c].part
<1>1. /\ prs \in Seq(PullRequests) /\ Len(prs) \in Nat
      /\ comments \in Seq(Remarks) /\ Len(comments) \in Nat /\ repo \in Repositories
  BY DEF HostTypes
<1>2. v \in Reviews /\ v \in Nat /\ k \in 0..LineParts + 1 /\ LineParts \in Nat
  BY AdaptersAssumption DEF CallTypes, Calls
<1>3. Commented \in Numbers /\ Commented \in Nat /\ Numbers = 1..Len(prs)
  BY <1>1, CommentedType DEF CallTypes, Numbers
<1>4. LineComment(v) \in Remarks /\ Talk(v) \in Remarks
  BY <1>2, <1>3 DEF LineComment, Talk, NewComment, Remarks
<1>5. UNCHANGED prs => PrsMove
  BY <1>1 DEF PrsMove
<1>6. UNCHANGED comments => CommentsMove
  BY <1>1 DEF CommentsMove
<1>7. provider' = provider /\ RepoMove
  BY <1>1 DEF Posted, RepoMove
<1>8. ASSUME Voted(v), provider = "github" \/ k = LineParts + 1 PROVE PrsMove
  <2> DEFINE q == [prs[Commented] EXCEPT !.votes = prs[Commented].votes \cup {v}]
  <2>1. prs' = [prs EXCEPT ![Commented] = q]
    BY <1>8, Zenon DEF Voted
  <2>2. prs[Commented] \in PullRequests
    BY <1>1, <1>3
  <2>3. /\ q \in PullRequests /\ q.title = prs[Commented].title /\ q.open = prs[Commented].open
        /\ q.body = prs[Commented].body /\ q.votes = prs[Commented].votes \cup {v}
    BY <1>2, <2>2 DEF PullRequests
  <2>4. Votes(v)
    BY <1>8 DEF Votes
  <2> HIDE DEF q
  <2> QED BY <1>3, <2>1, <2>3, <2>4, PrReplaced
<1>9. ASSUME comments' = comments \o [i \in 1..LineParts |-> LineComment(v)] PROVE CommentsMove
  <2> DEFINE new == [i \in 1..LineParts |-> LineComment(v)]
  <2>1. new \in Seq(Remarks) /\ Len(new) = LineParts
    BY <1>2, <1>4
  <2>2. comments' = comments \o new
    BY <1>9
  <2> HIDE DEF new
  <2> QED BY <1>1, <2>1, <2>2 DEF CommentsMove
<1>10. CASE provider = "github" /\ comments' = comments \o [i \in 1..LineParts |-> LineComment(v)] /\ Voted(v)
  BY <1>7, <1>8, <1>9, <1>10 DEF HostMove
<1>11. CASE provider = "ado" /\ k = LineParts + 1 /\ Voted(v) /\ UNCHANGED comments
  BY <1>6, <1>7, <1>8, <1>11 DEF HostMove
<1>12. CASE comments' = Append(comments, IF k = 0 THEN Talk(v) ELSE LineComment(v)) /\ UNCHANGED prs
  <2>1. PICK new \in Remarks : comments' = Append(comments, new)
    BY <1>4, <1>12
  <2>2. CommentsMove
    BY <2>1, CommentAdded
  <2> QED BY <1>5, <1>7, <1>12, <2>2 DEF HostMove
<1> QED
  BY <1>10, <1>11, <1>12 DEF Posted, Part

(* What users of the adapters do.                                          *)
LEMMA CallerMoves ==
  ASSUME HostTypes, CallTypes, NEW c \in Callers, CallerStep(c)
  PROVE  HostMove
<1>1. UNCHANGED host => HostMove
  <2>1. ASSUME UNCHANGED host PROVE provider' = provider /\ prs' = prs /\ comments' = comments /\ repo' = repo
    BY <2>1 DEF host
  <2>3. prs' = prs => PrsMove
    BY DEF HostTypes, PrsMove
  <2>4. comments' = comments => CommentsMove
    BY DEF HostTypes, CommentsMove
  <2>5. repo' = repo => RepoMove
    BY DEF HostTypes, RepoMove
  <2> QED BY <2>1, <2>3, <2>4, <2>5, Zenon DEF HostMove
<1>2. CASE (\E op \in {"prs", "comments"} : BeginListing(c, op)) \/ NextPage(c) \/ Take(c)
           \/ (\E r \in Reviews : BeginReview(c, r))
  BY <1>1, <1>2, Zenon DEF BeginListing, NextPage, Take, BeginReview
<1>3. CASE PostPart(c)
  BY <1>3, PostedMoves DEF PostPart
<1>4. CASE Fail(c)
  BY <1>1, <1>4, PostedMoves DEF Fail
<1>5. CASE PostComment(c)
  <2>1. /\ comments' = Append(comments, Talk(0)) /\ Canonical # {}
        /\ UNCHANGED << provider, repo, prs >>
    BY <1>5 DEF PostComment
  <2>2. Talk(0) \in Remarks
    BY <2>1, CommentedType DEF Talk, NewComment, Remarks
  <2>3. CommentsMove
    BY <2>1, <2>2, CommentAdded
  <2> QED BY <2>1, <2>3 DEF HostTypes, HostMove, PrsMove, RepoMove
<1> QED
  BY <1>2, <1>3, <1>4, <1>5 DEF CallerStep

(* What a run of the program does.                                         *)
LEMMA RunMoves ==
  ASSUME Types, NEW r \in Runs, RunStep(r)
  PROVE  HostMove
<1>1. /\ prs \in Seq(PullRequests) /\ Len(prs) \in Nat
      /\ comments \in Seq(Remarks) /\ repo \in Repositories
  BY DEF Types, HostTypes
<1>2. UNCHANGED prs => PrsMove
  BY <1>1 DEF PrsMove
<1>3. UNCHANGED comments => CommentsMove
  BY <1>1 DEF CommentsMove
<1>4. UNCHANGED repo => RepoMove
  BY <1>1 DEF RepoMove
<1>5. UNCHANGED host => HostMove
  BY <1>2, <1>3, <1>4 DEF host, HostMove
<1>6. ASSUME repo' \in {[repo EXCEPT !.exists = TRUE], [repo EXCEPT !.branch = TRUE],
                       [repo EXCEPT !.file = "current"]}
      PROVE  RepoMove
  BY <1>1, <1>6 DEF RepoMove, Repositories, Files
<1>7. CASE Apply(r) \/ GetRepo(r) \/ HeadSha(r) \/ GetBranch(r) \/ GetFile(r) \/ ListPrs(r)
           \/ WriteLock(r) \/ TearLock(r) \/ Verify(r) \/ ListComments(r) \/ SweepDone(r) \/ Stop(r)
  BY <1>5, <1>7 DEF Apply, GetRepo, HeadSha, GetBranch, GetFile, ListPrs, WriteLock, TearLock, Verify,
                    ListComments, SweepDone, Stop, Nothing
<1>8. CASE CreateRepo(r) \/ CreateBranch(r) \/ PutFile(r)
  <2>1. RepoMove
    BY <1>6, <1>8 DEF CreateRepo, CreateBranch, PutFile
  <2>2. UNCHANGED << provider, prs, comments >>
    BY <1>8 DEF CreateRepo, CreateBranch, PutFile, Writes
  <2> QED BY <1>2, <1>3, <2>1, <2>2 DEF HostMove
<1>9. ASSUME prs' = Append(prs, NewPr(TRUE)), CanOpenCanonical PROVE PrsMove
  BY <1>9 DEF PrsMove
<1>10. CASE CreatePr(r)
  BY <1>3, <1>4, <1>9, <1>10 DEF CreatePr, Writes, HostMove
<1>11. CASE PatchBody(r)
  <2> DEFINE n == tool[r].pr
             q == [prs[n] EXCEPT !.body = TRUE]
  <2>1. prs' = [prs EXCEPT ![n] = q] /\ UNCHANGED << provider, repo, comments >>
    BY <1>11, Zenon DEF PatchBody, Writes
  <2>2. CASE n \notin 1..Len(prs)
    <3>1. prs' = prs
      BY <1>1, <2>1, <2>2
    <3> QED BY <1>2, <1>3, <1>4, <2>1, <3>1 DEF HostMove
  <2>3. CASE n \in 1..Len(prs)
    <3>1. prs[n] \in PullRequests
      BY <1>1, <2>3
    <3>2. /\ q \in PullRequests /\ q.title = prs[n].title /\ q.open = prs[n].open
          /\ q.body /\ q.votes = prs[n].votes
      BY <3>1 DEF PullRequests
    <3> HIDE DEF q
    <3>3. PrsMove
      BY <2>1, <2>3, <3>2, PrReplaced DEF Types
    <3> QED BY <1>3, <1>4, <2>1, <3>3 DEF HostMove
  <2> QED BY <2>2, <2>3
<1>12. CASE Delete(r)
  <2>1. comments' = [comments EXCEPT ![Min(tool[r].todo)].deleted = TRUE]
        /\ UNCHANGED << provider, repo, prs >>
    BY <1>12 DEF Delete, Writes
  <2>2. CommentsMove
    BY <2>1, CommentMarked, Zenon DEF Types
  <2> QED BY <1>2, <1>4, <2>1, <2>2 DEF HostMove
<1>13. CASE LoseAnswer(r)
  <2>1. UNCHANGED << provider, comments >>
    BY <1>13 DEF LoseAnswer
  <2>2. PrsMove
    BY <1>2, <1>9, <1>13 DEF LoseAnswer
  <2>3. RepoMove
    BY <1>4, <1>6, <1>13 DEF LoseAnswer
  <2> QED BY <1>3, <2>1, <2>2, <2>3 DEF HostMove
<1> QED
  BY <1>7, <1>8, <1>10, <1>11, <1>12, <1>13 DEF RunStep, Write

(* Every step moves the host so.                                           *)
LEMMA HostMoves == ASSUME Types, [Next]_vars PROVE HostMove
<1>1. UNCHANGED vars => HostMove
  BY DEF Types, HostTypes, vars, host, HostMove, PrsMove, CommentsMove, RepoMove
<1> QED
  BY <1>1, EditMoves, CallerMoves, RunMoves DEF Next, Types

-----------------------------------------------------------------------------
(* How a step changes the calls of the adapters. *)

(* A review under way goes on, begins, or has posted one more part.        *)
CallMove(c) ==
  call'[c].op = "review" =>
    \/ /\ call[c].op = "review" /\ call'[c].review = call[c].review
       /\ call'[c].part = call[c].part
    \/ Canonical # {} /\ call'[c].review \in Reviews /\ call'[c].part = 0
    \/ /\ PostPart(c) /\ call[c].op = "review" /\ ~LastPart(call[c].part)
       /\ call'[c].review = call[c].review /\ call'[c].part = call[c].part + 1

(* A call is replaced by another, or by nothing.                           *)
LEMMA CallReplaced ==
  ASSUME CallTypes, NEW c \in Callers, NEW X, NEW a \in Calls(X), NEW f, f = [call EXCEPT ![c] = a]
  PROVE  /\ \E Y : f \in [Callers -> Calls(Y)]
         /\ f \in [Callers -> Calls(Kept(f))]
         /\ f[c] = a /\ \A d \in Callers \ {c} : f[d] = call[d]
<1> DEFINE Y == X \cup Kept(call)
<1>1. call \in [Callers -> Calls(Kept(call))] /\ X \subseteq Y /\ Kept(call) \subseteq Y
  BY DEF CallTypes
<1> HIDE DEF Y
<1>2. a \in Calls(Y) /\ \A d \in Callers : call[d] \in Calls(Y)
  <2>1. ASSUME NEW d \in Callers PROVE call[d] \in Calls(Y)
    <3>1. call[d] \in Calls(Kept(call))
      BY <1>1
    <3> QED BY <1>1, <3>1 DEF Calls
  <2>2. a \in Calls(Y)
    BY <1>1 DEF Calls
  <2> QED BY <2>1, <2>2
<1>3. f \in [Callers -> Calls(Y)]
  BY <1>1, <1>2
<1>4. f[c] = a /\ \A d \in Callers \ {c} : f[d] = call[d]
  BY <1>1
<1> QED
  BY <1>3, <1>4, KeptAll

(* No call.                                                                *)
LEMMA IdleCall == Idle \in Calls({0, << >>, {}, FALSE}) /\ Idle.op = "idle" /\ Idle.part = 0
BY AdaptersAssumption DEF Idle, Calls, Ops

(* A call is replaced by f[c], and then the listings observe the step.     *)
LEMMA CallObserved ==
  ASSUME CallTypes, NEW c \in Callers, NEW X, NEW a \in Calls(X), NEW ps, NEW cs,
         call' = Observed([call EXCEPT ![c] = a], ps, cs)
  PROVE  /\ call' \in [Callers -> Calls(Kept(call'))]
         /\ call'[c].op = a.op /\ call'[c].review = a.review /\ call'[c].part = a.part
         /\ \A d \in Callers \ {c} : CallMove(d)
<1> DEFINE f == [call EXCEPT ![c] = a]
<1>1. PICK Y : f \in [Callers -> Calls(Y)]
  BY CallReplaced
<1>2. f[c] = a /\ \A d \in Callers \ {c} : f[d] = call[d]
  BY CallReplaced
<1>3. call' = Observed(f, ps, cs)
  OBVIOUS
<1> HIDE DEF f
<1>4. /\ call' \in [Callers -> Calls(Kept(call'))]
      /\ \A d \in Callers : /\ call'[d].op = f[d].op /\ call'[d].review = f[d].review
                           /\ call'[d].part = f[d].part
  <2> DEFINE after == Observed(f, ps, cs)
  <2>1. /\ after \in [Callers -> Calls(Kept(after))]
        /\ \A d \in Callers : /\ after[d].op = f[d].op /\ after[d].review = f[d].review
                             /\ after[d].part = f[d].part
    BY <1>1, ObservedCalls
  <2> HIDE DEF after
  <2> QED BY <1>3, <2>1 DEF after
<1>5. ASSUME NEW d \in Callers \ {c} PROVE CallMove(d)
  <2>1. /\ call'[d].op = call[d].op /\ call'[d].review = call[d].review
        /\ call'[d].part = call[d].part
    BY <1>2, <1>4, Zenon
  <2> QED BY <2>1, Zenon DEF CallMove
<1> QED
  BY <1>2, <1>4, <1>5

(* The listings observe a step that is no call's.                          *)
LEMMA OnlyObserved ==
  ASSUME CallTypes, NEW ps, NEW cs, call' = Observed(call, ps, cs)
  PROVE  /\ call' \in [Callers -> Calls(Kept(call'))]
         /\ \A d \in Callers : CallMove(d)
BY ObservedCalls DEF CallTypes, CallMove

(* Every step moves the calls so.                                          *)
LEMMA CallsMove ==
  ASSUME Types, [Next]_vars
  PROVE  /\ call' \in [Callers -> Calls(Kept(call'))]
         /\ \A d \in Callers : CallMove(d)
<1> DEFINE Moves == /\ call' \in [Callers -> Calls(Kept(call'))]
                    /\ \A d \in Callers : CallMove(d)
<1>1. CallTypes /\ call \in [Callers -> Calls(Kept(call))]
  BY DEF Types, CallTypes
<1>2. CASE UNCHANGED call
  <2>1. Kept(call') = Kept(call)
    BY <1>2
  <2> QED BY <1>1, <1>2, <2>1 DEF CallMove
<1>3. ASSUME NEW c \in Callers, NEW X, NEW a \in Calls(X), call' = [call EXCEPT ![c] = a],
             a.op # "review" \/ (Canonical # {} /\ a.review \in Reviews /\ a.part = 0)
      PROVE  Moves
  <2>1. /\ call' \in [Callers -> Calls(Kept(call'))]
        /\ call'[c] = a /\ \A d \in Callers \ {c} : call'[d] = call[d]
    BY <1>1, <1>3, CallReplaced
  <2> QED BY <1>3, <2>1 DEF CallMove
<1>4. ASSUME NEW c \in Callers, CallerStep(c) PROVE Moves
  <2>1. call[c] \in Calls(Kept(call))
    BY <1>1
  <2>2. ASSUME NEW op \in {"prs", "comments"}, BeginListing(c, op) PROVE Moves
    <3> DEFINE from == Listed(op)
               off  == BeyondReach(op, Listed(op))
               a    == [Idle EXCEPT !.op = op, !.page = 1, !.from = from, !.beyond = off]
               X    == {0, << >>, {}, FALSE, 1, from, off}
    <3>1. call' = [call EXCEPT ![c] = a]
      BY <2>2, Zenon DEF BeginListing
    <3> HIDE DEF from, off
    <3>2. a \in Calls(X) /\ a.op = op
      <4>1. {0, << >>, {}, FALSE} \subseteq X /\ 1 \in X /\ from \in X /\ off \in X
        OBVIOUS
      <4> HIDE DEF X
      <4>2. Idle \in Calls(X)
        BY <4>1, IdleCall DEF Calls
      <4> QED BY <4>1, <4>2 DEF Calls, Ops
    <3> HIDE DEF a, X
    <3> QED BY <1>3, <3>1, <3>2
  <2>3. CASE NextPage(c)
    <3> DEFINE b     == call[c]
               list  == Listing(b.op)
               page  == IF provider = "ado" THEN Slice(list, 1, Reach(b.op)) ELSE Page(list, b.page)
               over  == provider = "ado" \/ page = << >> \/ Finished(b.page)
               found == b.found \o page
               next  == b.page + 1
               op    == IF over THEN ListingOver(b.op) ELSE b.op
               a     == [b EXCEPT !.found = found, !.page = next, !.op = op]
               X     == Kept(call) \cup {found, next}
    <3>1. call' = [call EXCEPT ![c] = a] /\ b.op \in {"prs", "comments"}
      BY <2>3, Zenon DEF NextPage
    <3>2. op \in Ops /\ op # "review"
      BY <3>1 DEF Ops, ListingOver
    <3> HIDE DEF found, next, op
    <3>3. a \in Calls(X) /\ a.op = op
      BY <2>1, <3>2 DEF Calls
    <3> HIDE DEF a, X
    <3> QED BY <1>3, <3>1, <3>2, <3>3
  <2>4. CASE Take(c)
    BY <1>3, <2>4, IdleCall DEF Take
  <2>5. ASSUME NEW r \in Reviews, BeginReview(c, r) PROVE Moves
    <3> DEFINE a == [Idle EXCEPT !.op = "review", !.review = r]
    <3>1. call' = [call EXCEPT ![c] = a] /\ Canonical # {}
      BY <2>5, Zenon DEF BeginReview
    <3>2. /\ a \in Calls({0, << >>, {}, FALSE})
          /\ a.op = "review" /\ a.review = r /\ a.part = 0
      BY IdleCall DEF Calls, Ops
    <3> HIDE DEF a
    <3> QED BY <1>3, <3>1, <3>2
  <2>6. CASE PostPart(c)
    <3> DEFINE b == call[c]
               a == IF LastPart(b.part) THEN Idle ELSE [b EXCEPT !.part = b.part + 1]
               X == Kept(call) \cup {0, << >>, {}, FALSE}
    <3>1. call' = Observed([call EXCEPT ![c] = a], prs', comments') /\ b.op = "review"
      BY <2>6, Zenon DEF PostPart
    <3>2. a \in Calls(X)
      <4>1. CASE LastPart(b.part)
        BY <4>1, AdaptersAssumption DEF Idle, Calls, Ops
      <4>2. CASE ~LastPart(b.part)
        <5>1. b.part + 1 \in 0..LineParts + 1
          BY <2>1, <4>2, AdaptersAssumption DEF LastPart, Calls
        <5> QED BY <2>1, <4>2, <5>1 DEF Calls
      <4> QED BY <4>1, <4>2
    <3>3. /\ LastPart(b.part) => a.op = "idle"
          /\ ~LastPart(b.part) => a.op = b.op /\ a.review = b.review /\ a.part = b.part + 1
      BY <2>1, IdleCall DEF Calls
    <3> HIDE DEF a, X
    <3>4. /\ call' \in [Callers -> Calls(Kept(call'))]
          /\ call'[c].op = a.op /\ call'[c].review = a.review /\ call'[c].part = a.part
          /\ \A d \in Callers \ {c} : CallMove(d)
      BY <1>1, <3>1, <3>2, CallObserved
    <3>5. CallMove(c)
      BY <2>6, <3>1, <3>3, <3>4 DEF CallMove
    <3> QED BY <3>4, <3>5
  <2>7. CASE PostComment(c)
    BY <1>1, <2>7, OnlyObserved DEF PostComment
  <2>8. CASE Fail(c)
    <3>1. call' = Observed([call EXCEPT ![c] = Idle], prs', comments')
      BY <2>8 DEF Fail
    <3>2. /\ call' \in [Callers -> Calls(Kept(call'))]
          /\ call'[c].op = "idle" /\ \A d \in Callers \ {c} : CallMove(d)
      BY <1>1, <3>1, IdleCall, CallObserved
    <3> QED BY <3>2 DEF CallMove
  <2> QED
    BY <1>4, <2>2, <2>3, <2>4, <2>5, <2>6, <2>7, <2>8 DEF CallerStep
<1>5. CASE OthersEdit
  BY <1>1, <1>5, OnlyObserved DEF OthersEdit, Edited
<1>6. ASSUME NEW r \in Runs, RunStep(r) PROVE Moves
  <2>1. \/ UNCHANGED call
        \/ \E ps, cs : call' = Observed(call, ps, cs)
    BY <1>6 DEF RunStep, Apply, GetRepo, HeadSha, GetBranch, GetFile, ListPrs, Write, CreateRepo,
                CreateBranch, PutFile, PatchBody, CreatePr, Delete, Writes, WriteLock, TearLock, Verify,
                ListComments, SweepDone, Stop, LoseAnswer, Nothing, adapters
  <2> QED BY <1>1, <1>2, <2>1, OnlyObserved
<1> QED
  BY <1>2, <1>4, <1>5, <1>6 DEF Next, vars, adapters

-----------------------------------------------------------------------------
(* How a step changes the runs of the program. *)

(* Only run r moves; of what it knows it may learn the PR's number, the    *)
(* file's version and what to sweep.                                       *)
Turn(r) ==
  /\ tool' \in [Runs -> Invocations]
  /\ \A q \in Runs \ {r} : tool'[q] = tool[q]

Remembers(r) ==
  tool'[r].quiet = tool[r].quiet /\ tool'[r].clean = tool[r].clean

Goes(r, from, to) == tool[r].pc = from /\ tool'[r].pc = to

(* What the steps of an apply find and do.                                 *)
Applies(r) ==
  \/ Goes(r, "repo", IF repo.exists THEN "head" ELSE "mkrepo") /\ UNCHANGED host
  \/ Goes(r, "mkrepo", "head") /\ repo'.exists
  \/ /\ Goes(r, "head", IF provider = "github" THEN "branch" ELSE "pr")
     /\ repo.exists /\ (provider = "ado" => repo.branch)
  \/ Goes(r, "branch", IF repo.branch THEN "file" ELSE "mkbranch") /\ UNCHANGED host
  \/ Goes(r, "mkbranch", "file") /\ repo'.branch
  \/ Goes(r, "file", IF repo.file = "current" THEN "pr" ELSE "putfile") /\ repo.branch
  \/ Goes(r, "putfile", "pr") /\ repo'.file = "current"
  \/ Goes(r, "pr", "mkpr") /\ Found = {} /\ UNCHANGED host
  \/ /\ tool[r].pc = "pr" /\ tool'[r].pr \in Found /\ UNCHANGED host
     /\ tool'[r].pc = IF prs[tool'[r].pr].body THEN "other" ELSE "patch"
  \/ /\ Goes(r, "patch", "other") /\ tool'[r].pr = tool[r].pr
     /\ prs' = [prs EXCEPT ![tool[r].pr].body = TRUE]
  \/ /\ Goes(r, "mkpr", "other") /\ tool'[r].pr = Len(prs) + 1
     /\ prs' = Append(prs, NewPr(TRUE))
  \/ tool'[r].pc \in {"failed", "applied", "matches", "swept", "sweep"}

(* A run's record is replaced.                                             *)
LEMMA ToolReplaced ==
  ASSUME ToolTypes, NEW r \in Runs, NEW t \in Invocations, tool' = [tool EXCEPT ![r] = t]
  PROVE  Turn(r) /\ tool'[r] = t
BY DEF ToolTypes, Turn

(* A run goes from one place to the next and remembers everything.         *)
LEMMA AtMoves ==
  ASSUME ToolTypes, NEW r \in Runs, NEW from, NEW to \in Pcs, At(r, from, to)
  PROVE  /\ Turn(r) /\ Goes(r, from, to) /\ Remembers(r)
         /\ tool'[r].pr = tool[r].pr
         /\ tool'[r].todo = tool[r].todo /\ tool'[r].stray = tool[r].stray
<1> DEFINE t == [tool[r] EXCEPT !.pc = to]
<1>1. tool' = [tool EXCEPT ![r] = t] /\ tool[r].pc = from
  BY Zenon DEF At
<1>2. tool[r] \in Invocations
  BY DEF ToolTypes
<1>3. /\ t \in Invocations /\ t.pc = to /\ t.pr = tool[r].pr /\ t.todo = tool[r].todo
      /\ t.quiet = tool[r].quiet /\ t.clean = tool[r].clean /\ t.stray = tool[r].stray
  BY <1>2 DEF Invocations
<1> HIDE DEF t
<1> QED
  BY <1>1, <1>3, ToolReplaced DEF Goes, Remembers

(* apply begins.                                                           *)
LEMMA ApplyMoves ==
  ASSUME ToolTypes, NEW r \in Runs, Apply(r)
  PROVE  /\ Turn(r) /\ tool[r].pc = "ready" /\ tool'[r].pc \in {"failed", "repo"}
         /\ tool'[r].clean = Clean
<1> DEFINE to == IF torn THEN "failed" ELSE "repo"
           ok == Clean
           t  == [tool[r] EXCEPT !.pc = to, !.clean = ok, !.quiet = TRUE]
<1>1. tool' = [tool EXCEPT ![r] = t] /\ tool[r].pc = "ready"
  BY Zenon DEF Apply
<1>2. tool[r] \in Invocations /\ to \in Pcs /\ to \in {"failed", "repo"}
  BY DEF ToolTypes, Pcs, Busy
<1>3. ok \in BOOLEAN
  BY DEF Clean
<1> HIDE DEF to, ok
<1>4. /\ t \in Invocations /\ t.pc = to /\ t.clean = ok
  BY <1>2, <1>3 DEF Invocations
<1> HIDE DEF t
<1> QED
  BY <1>1, <1>2, <1>4, ToolReplaced DEF ok

(* What a run's record becomes where it learns something.                  *)
LEMMA LearnMoves ==
  ASSUME ToolTypes, HostTypes, NEW r \in Runs,
         GetFile(r) \/ ListPrs(r) \/ CreatePr(r)
  PROVE  /\ Turn(r) /\ Remembers(r) /\ Applies(r)
         /\ tool[r].pc \in Busy /\ tool'[r].pc \in Busy \ {"sweep"}
<1>1. /\ tool[r] \in Invocations /\ repo.file \in Files
      /\ Len(prs) \in Nat /\ Numbers = 1..Len(prs) /\ prs \in Seq(PullRequests)
  BY DEF ToolTypes, HostTypes, Repositories, Numbers
<1>2. CASE GetFile(r)
  <2> DEFINE to == IF repo.file = "current" THEN "pr" ELSE "putfile"
             t  == [tool[r] EXCEPT !.pc = to, !.sha = repo.file]
  <2>1. tool' = [tool EXCEPT ![r] = t] /\ tool[r].pc = "file" /\ repo.branch
    BY <1>2, Zenon DEF GetFile, Same
  <2>2. to \in Pcs /\ to \in Busy \ {"sweep"} /\ "file" \in Busy
    BY DEF Pcs, Busy, WritePcs
  <2>3. t \in Invocations /\ t.pc = to /\ t.quiet = tool[r].quiet /\ t.clean = tool[r].clean
    <3> HIDE DEF to
    <3> QED BY <1>1, <2>2 DEF Invocations
  <2> HIDE DEF t
  <2>4. Turn(r) /\ tool'[r] = t
    BY <2>1, <2>3, ToolReplaced
  <2> QED BY <2>1, <2>2, <2>3, <2>4 DEF Remembers, Applies, Goes
<1>3. CASE ListPrs(r)
  <2> DEFINE n  == IF Found = {} THEN 0 ELSE Max(Found)
             to == IF n = 0 THEN "mkpr" ELSE IF prs[n].body THEN "other" ELSE "patch"
             t  == [tool[r] EXCEPT !.pr = n, !.pc = to]
  <2>1. tool' = [tool EXCEPT ![r] = t] /\ tool[r].pc = "pr" /\ UNCHANGED host
    BY <1>3, Zenon DEF ListPrs, Nothing
  <2>2. Found \in SUBSET (1..Len(prs))
    BY <1>1 DEF Found
  <2>3. n \in Nat /\ (n = 0 <=> Found = {}) /\ (Found # {} => n \in Found)
    <3>1. CASE Found = {}
      BY <3>1
    <3>2. CASE Found # {}
      <4>1. Max(Found) \in Found
        BY <1>1, <2>2, <3>2, LargestOf
      <4>2. n = Max(Found) /\ n \in 1..Len(prs)
        BY <2>2, <3>2, <4>1
      <4> QED BY <1>1, <3>2, <4>1, <4>2
    <3> QED BY <3>1, <3>2
  <2> HIDE DEF n
  <2>4. to \in Pcs /\ to \in Busy \ {"sweep"} /\ "pr" \in Busy
    BY DEF Pcs, Busy, WritePcs
  <2>5. t \in Invocations /\ t.pc = to /\ t.pr = n /\ t.quiet = tool[r].quiet
        /\ t.clean = tool[r].clean
    <3> HIDE DEF to
    <3> QED BY <1>1, <2>3, <2>4 DEF Invocations
  <2> HIDE DEF t
  <2>6. Turn(r) /\ tool'[r] = t
    BY <2>1, <2>5, ToolReplaced
  <2>7. Applies(r)
    BY <2>1, <2>3, <2>5, <2>6 DEF Applies, Goes
  <2> QED BY <2>1, <2>4, <2>5, <2>6, <2>7 DEF Remembers
<1>4. CASE CreatePr(r)
  <2> DEFINE n == Len(prs')
             t == [tool[r] EXCEPT !.pc = "other", !.pr = n]
  <2>1. tool' = [tool EXCEPT ![r] = t] /\ tool[r].pc = "mkpr" /\ prs' = Append(prs, NewPr(TRUE))
    BY <1>4, Zenon DEF CreatePr
  <2>2. n = Len(prs) + 1 /\ n \in Nat
    BY <1>1, <2>1
  <2> HIDE DEF n
  <2>3. "other" \in Pcs /\ "other" \in Busy \ {"sweep"} /\ "mkpr" \in Busy
    BY DEF Pcs, Busy, WritePcs
  <2>4. t \in Invocations /\ t.pc = "other" /\ t.pr = n /\ t.quiet = tool[r].quiet
        /\ t.clean = tool[r].clean
    BY <1>1, <2>2, <2>3 DEF Invocations
  <2> HIDE DEF t
  <2>5. Turn(r) /\ tool'[r] = t
    BY <2>1, <2>4, ToolReplaced
  <2>6. Applies(r)
    BY <2>1, <2>2, <2>4, <2>5 DEF Applies, Goes
  <2> QED BY <2>1, <2>3, <2>4, <2>5, <2>6 DEF Remembers
<1> QED
  BY <1>2, <1>3, <1>4

(* A sweep begins, with every stray comment it lists to delete.            *)
LEMMA ListMoves ==
  ASSUME ToolTypes, HostTypes, NEW r \in Runs, ListComments(r)
  PROVE  /\ Turn(r) /\ Remembers(r) /\ Goes(r, "ready", "sweep")
         /\ tool'[r].stray = Stray /\ tool'[r].todo = Stray
         /\ Stray \subseteq 1..Len(comments) /\ comments' = comments
<1> DEFINE S == Stray
           t == [tool[r] EXCEPT !.pc = "sweep", !.stray = S, !.todo = S]
<1>1. tool' = [tool EXCEPT ![r] = t] /\ tool[r].pc = "ready" /\ comments' = comments
  BY Zenon DEF ListComments, Nothing, host
<1>2. tool[r] \in Invocations /\ Len(comments) \in Nat /\ DOMAIN comments = 1..Len(comments)
      /\ "sweep" \in Pcs
  BY DEF ToolTypes, HostTypes, Pcs, Busy
<1>3. S \subseteq 1..Len(comments)
  BY <1>2 DEF Stray, SweepList, FirstPage
<1>4. S \in SUBSET Nat
  BY <1>2, <1>3
<1> HIDE DEF S
<1>5. /\ t \in Invocations /\ t.pc = "sweep" /\ t.stray = S /\ t.todo = S
      /\ t.quiet = tool[r].quiet /\ t.clean = tool[r].clean
  BY <1>2, <1>4 DEF Invocations
<1> HIDE DEF t
<1> QED
  BY <1>1, <1>3, <1>5, ToolReplaced DEF Remembers, Goes, S

(* A sweep deletes the comment it had next in mind.                        *)
LEMMA DeleteMoves ==
  ASSUME ToolTypes, NEW r \in Runs, Delete(r)
  PROVE  /\ Turn(r) /\ Remembers(r) /\ Goes(r, "sweep", "sweep")
         /\ tool'[r].stray = tool[r].stray
         /\ \E i : /\ tool'[r].todo = tool[r].todo \ {i}
                  /\ comments' = [comments EXCEPT ![i].deleted = TRUE]
<1> DEFINE i == Min(tool[r].todo)
           rest == tool[r].todo \ {i}
           t == [tool[r] EXCEPT !.todo = rest]
<1>1. /\ tool' = [tool EXCEPT ![r] = t] /\ tool[r].pc = "sweep"
      /\ comments' = [comments EXCEPT ![i].deleted = TRUE]
  BY Zenon DEF Delete
<1> HIDE DEF i
<1>2. tool[r] \in Invocations
  BY DEF ToolTypes
<1>3. rest \in SUBSET Nat
  BY <1>2 DEF Invocations
<1> HIDE DEF rest
<1>4. /\ t \in Invocations /\ t.pc = tool[r].pc /\ t.stray = tool[r].stray /\ t.todo = rest
      /\ t.quiet = tool[r].quiet /\ t.clean = tool[r].clean
  BY <1>2, <1>3 DEF Invocations
<1> HIDE DEF t
<1>5. Turn(r) /\ tool'[r] = t
  BY <1>1, <1>4, ToolReplaced
<1>6. tool'[r].todo = tool[r].todo \ {i}
  BY <1>4, <1>5 DEF rest
<1> QED
  BY <1>1, <1>4, <1>5, <1>6 DEF Remembers, Goes

(* What a step of a run makes of it: it begins an apply, takes a step of   *)
(* one, or sweeps.                                                         *)
LEMMA RunTurns ==
  ASSUME Types, NEW r \in Runs, RunStep(r)
  PROVE  /\ Turn(r)
         /\ \/ /\ Apply(r) /\ tool'[r].pc \in {"failed", "repo"} /\ tool'[r].clean = Clean
               /\ UNCHANGED host
            \/ Remembers(r) /\ Applies(r)
         /\ tool'[r].pc \in {"sweep", "swept"} => ListComments(r) \/ Delete(r) \/ SweepDone(r)
<1> DEFINE Turns == /\ Turn(r)
                    /\ Remembers(r) /\ Applies(r)
                    /\ tool'[r].pc \in {"sweep", "swept"} => ListComments(r) \/ Delete(r) \/ SweepDone(r)
<1>1. ToolTypes /\ HostTypes /\ provider \in {"github", "ado"}
  BY DEF Types, HostTypes
<1>2. ASSUME NEW from, NEW to \in Pcs, At(r, from, to),
             Goes(r, from, to) => Applies(r), to \notin {"sweep", "swept"}
      PROVE  Turns
  BY <1>1, <1>2, AtMoves DEF Goes
<1>3. CASE Apply(r)
  <2>1. UNCHANGED host /\ ~(tool'[r].pc \in {"sweep", "swept"})
    BY <1>1, <1>3, ApplyMoves DEF Apply, Nothing
  <2>2. Turn(r) /\ tool'[r].pc \in {"failed", "repo"} /\ tool'[r].clean = Clean
    <3>1. ToolTypes
      BY <1>1, Zenon
    <3> QED BY <1>3, <3>1, ApplyMoves, Zenon
  <2> QED BY <1>3, <2>1, <2>2, Zenon
<1>4. CASE GetRepo(r)
  BY <1>2, <1>4 DEF GetRepo, Applies, Nothing, Pcs, Busy, WritePcs
<1>5. CASE CreateRepo(r)
  <2>1. repo'.exists
    BY <1>1, <1>5 DEF CreateRepo, HostTypes, Repositories
  <2>2. At(r, "mkrepo", "head") /\ "head" \in Pcs
    BY <1>5 DEF CreateRepo, Pcs, Busy
  <2> QED BY <1>2, <2>1, <2>2 DEF Applies
<1>6. CASE HeadSha(r)
  BY <1>2, <1>6 DEF HeadSha, Applies, Pcs, Busy
<1>7. CASE GetBranch(r)
  BY <1>2, <1>7 DEF GetBranch, Applies, Nothing, Pcs, Busy, WritePcs
<1>8. CASE CreateBranch(r)
  <2>1. repo'.branch
    BY <1>1, <1>8 DEF CreateBranch, HostTypes, Repositories
  <2>2. At(r, "mkbranch", "file") /\ "file" \in Pcs
    BY <1>8 DEF CreateBranch, Pcs, Busy
  <2> QED BY <1>2, <2>1, <2>2 DEF Applies
<1>9. CASE PutFile(r)
  <2>1. repo'.file = "current"
    BY <1>1, <1>9 DEF PutFile, HostTypes, Repositories
  <2>2. At(r, "putfile", "pr") /\ "pr" \in Pcs
    BY <1>9 DEF PutFile, Pcs, Busy
  <2> QED BY <1>2, <2>1, <2>2 DEF Applies
<1>10. CASE GetFile(r) \/ ListPrs(r) \/ CreatePr(r)
  <2>1. tool'[r].pc \notin {"sweep", "swept"}
    BY <1>1, <1>10, LearnMoves DEF Busy, WritePcs
  <2> QED BY <1>1, <1>10, <2>1, LearnMoves
<1>11. CASE PatchBody(r)
  <2>1. At(r, "patch", "other") /\ "other" \in Pcs /\ prs' = [prs EXCEPT ![tool[r].pr].body = TRUE]
    BY <1>11 DEF PatchBody, Pcs, Busy
  <2>2. Applies(r)
    BY <1>1, <2>1, AtMoves DEF Applies
  <2> QED BY <1>2, <2>1, <2>2
<1>12. CASE WriteLock(r) \/ TearLock(r)
  BY <1>2, <1>12 DEF WriteLock, TearLock, Applies, Goes, Pcs
<1>13. CASE Verify(r)
  BY <1>2, <1>13 DEF Verify, Applies, Goes, Pcs
<1>14. CASE Stop(r) \/ LoseAnswer(r)
  <2>1. At(r, tool[r].pc, "failed") /\ "failed" \in Pcs
    BY <1>14 DEF Stop, LoseAnswer, Ends, At, Pcs
  <2> QED BY <1>2, <2>1 DEF Applies, Goes
<1>15. CASE ListComments(r)
  BY <1>1, <1>15, ListMoves DEF Applies, Goes
<1>16. CASE Delete(r)
  BY <1>1, <1>16, DeleteMoves DEF Applies, Goes
<1>17. CASE SweepDone(r)
  <2>1. At(r, "sweep", "swept") /\ "swept" \in Pcs
    BY <1>17 DEF SweepDone, Pcs
  <2> QED BY <1>1, <1>17, <2>1, AtMoves DEF Applies, Goes
<1> QED
  BY <1>3, <1>4, <1>5, <1>6, <1>7, <1>8, <1>9, <1>10, <1>11, <1>12, <1>13, <1>14, <1>15, <1>16, <1>17
     DEF RunStep, Write

-----------------------------------------------------------------------------
(* The types, and what no step but an edit undoes. *)

(* Every step keeps the types.                                             *)
LEMMA TypesStep == Types /\ [Next]_vars => Types'
<1> SUFFICES ASSUME Types, [Next]_vars PROVE Types'
  OBVIOUS
<1>1. /\ prs \in Seq(PullRequests) /\ Len(prs) \in Nat /\ provider \in {"github", "ado"}
      /\ Numbers = 1..Len(prs)
      /\ ToolTypes /\ tool \in [Runs -> Invocations]
  BY DEF Types, HostTypes, ToolTypes, Numbers
<1>2. HostMove
  BY HostMoves
<1>3. prs' \in Seq(PullRequests) /\ \A n \in 1..Len(prs) : n \in 1..Len(prs') /\ prs'[n].title = prs[n].title
  <2>1. ASSUME NEW b \in BOOLEAN, prs' = Append(prs, NewPr(b))
        PROVE  prs' \in Seq(PullRequests) /\ \A n \in 1..Len(prs) : n \in 1..Len(prs') /\ prs'[n] = prs[n]
    <3>1. NewPr(b) \in PullRequests
      BY DEF NewPr, PullRequests
    <3> QED BY <1>1, <2>1, <3>1
  <2> QED BY <1>1, <1>2, <2>1 DEF HostMove, PrsMove
<1>4. HostTypes'
  BY <1>1, <1>2, <1>3 DEF HostMove, CommentsMove, RepoMove, HostTypes
<1>5. Canonical # {} => Canonical' # {}
  BY <1>1, <1>3 DEF Canonical, Numbers
<1>6. CallTypes'
  BY <1>5, CallsMove DEF Types, CallTypes, CallMove
<1>7. ASSUME NEW r \in Runs, RunStep(r) PROVE ToolTypes'
  <2>1. tool' \in [Runs -> Invocations]
    BY <1>7, RunTurns DEF Turn
  <2>2. tool[r] \in Invocations
    BY <1>1
  <2>3. /\ lock' \in {lock, tool[r].pr} /\ torn' \in {torn, TRUE, FALSE}
        /\ applied' \in {applied, tool[r].quiet, FALSE}
    BY <1>7 DEF RunStep, Apply, GetRepo, HeadSha, GetBranch, GetFile, ListPrs, Write, CreateRepo,
                CreateBranch, PutFile, PatchBody, CreatePr, Delete, Writes, WriteLock, TearLock, Verify,
                ListComments, SweepDone, Stop, LoseAnswer, Nothing
  <2> QED BY <1>1, <2>1, <2>2, <2>3 DEF ToolTypes, Invocations
<1>8. ASSUME OthersEdit PROVE ToolTypes'
  <2>1. /\ tool' = [r \in Runs |-> [tool[r] EXCEPT !.quiet = FALSE]]
        /\ applied' = FALSE /\ UNCHANGED << lock, torn >>
    BY <1>8 DEF OthersEdit
  <2>2. \A r \in Runs : [tool[r] EXCEPT !.quiet = FALSE] \in Invocations
    BY <1>1 DEF Invocations
  <2> QED BY <1>1, <2>1, <2>2 DEF ToolTypes
<1>9. ASSUME UNCHANGED env PROVE ToolTypes'
  BY <1>1, <1>9 DEF env, ToolTypes
<1> QED
  BY <1>4, <1>6, <1>7, <1>8, <1>9 DEF Next, vars, Types

(* A step that is no edit leaves the fixture as good as it was.            *)
LEMMA FixtureStays ==
  ASSUME Types, [Next]_vars, ~OthersEdit
  PROVE  /\ provider' = provider
         /\ repo.exists => repo'.exists
         /\ repo.branch => repo'.branch
         /\ repo.file = "current" => repo'.file = "current"
         /\ \A n : Matches(n) => Matches(n)'
         /\ Clean => Clean'
         /\ \A n \in Numbers : /\ n \in Numbers' /\ prs'[n].title = prs[n].title
                              /\ prs'[n].open = prs[n].open /\ (prs[n].body => prs'[n].body)
<1>1. prs \in Seq(PullRequests) /\ Len(prs) \in Nat /\ Numbers = 1..Len(prs)
  BY DEF Types, HostTypes, Numbers
<1>2. HostMove
  BY HostMoves
<1>3. prs' \in Seq(PullRequests) /\ Numbers' = 1..Len(prs')
  BY TypesStep DEF Types, HostTypes, Numbers
<1>4. \A n \in 1..Len(prs) : /\ n \in 1..Len(prs') /\ prs'[n].title = prs[n].title
                             /\ prs'[n].open = prs[n].open /\ (prs[n].body => prs'[n].body)
  <2>1. ASSUME NEW b \in BOOLEAN, prs' = Append(prs, NewPr(b))
        PROVE  \A n \in 1..Len(prs) : n \in 1..Len(prs') /\ prs'[n] = prs[n]
    BY <1>1, <2>1
  <2> QED BY <1>1, <1>2, <2>1 DEF HostMove, PrsMove
<1>5. \A n : Matches(n) => Matches(n)'
  BY <1>1, <1>3, <1>4 DEF Matches
<1>6. /\ provider' = provider /\ (repo.exists => repo'.exists) /\ (repo.branch => repo'.branch)
      /\ (repo.file = "current" => repo'.file = "current")
  BY <1>2 DEF HostMove, RepoMove
<1>7. Clean => Clean'
  <2> SUFFICES ASSUME Clean PROVE Clean'
    OBVIOUS
  <2>1. PICK n \in Numbers : Matches(n)
    BY DEF Clean
  <2>2. n \in Numbers' /\ Matches(n)'
    BY <1>1, <1>3, <1>4, <1>5, <2>1
  <2> QED BY <1>6, <2>2 DEF Clean
<1> QED
  BY <1>1, <1>3, <1>4, <1>5, <1>6, <1>7

(* At most one pull request with the manifest's title is open.             *)
OneOpen == \A m, n \in Found : m = n

(* Every step keeps it so.                                                 *)
LEMMA OneOpenStep == Types /\ OneOpen /\ [Next]_vars => OneOpen'
<1> SUFFICES ASSUME Types, OneOpen, [Next]_vars, NEW m \in Found', NEW n \in Found' PROVE m = n
  BY DEF OneOpen
<1>1. prs \in Seq(PullRequests) /\ Len(prs) \in Nat /\ Numbers = 1..Len(prs)
  BY DEF Types, HostTypes, Numbers
<1>2. prs' \in Seq(PullRequests) /\ Numbers' = 1..Len(prs')
  BY TypesStep DEF Types, HostTypes, Numbers
<1>3. PrsMove
  BY HostMoves DEF HostMove
<1>4. ASSUME NEW b \in BOOLEAN, prs' = Append(prs, NewPr(b)), b => CanOpenCanonical PROVE m = n
  <2>1. /\ Len(prs') = Len(prs) + 1 /\ prs'[Len(prs) + 1] = NewPr(b)
        /\ \A k \in 1..Len(prs) : prs'[k] = prs[k]
    BY <1>1, <1>4
  <2>2. NewPr(b).title = b
    BY DEF NewPr
  <2>3. b => Found = {}
    BY <1>4 DEF CanOpenCanonical, Found
  <2> QED BY <1>1, <1>2, <2>1, <2>2, <2>3 DEF Found, OneOpen
<1>5. ASSUME Len(prs') = Len(prs),
             \A k \in 1..Len(prs) : prs'[k].title = prs[k].title /\ (prs'[k].open => prs[k].open)
      PROVE  m = n
  BY <1>1, <1>2, <1>5 DEF Found, OneOpen
<1> QED
  BY <1>3, <1>4, <1>5 DEF PrsMove

-----------------------------------------------------------------------------
(* The apply. *)

(* What an apply during which nobody edited has made sure of by now.       *)
Progress(r) ==
  LET t == tool[r]
  IN  t.quiet =>
        /\ t.pc \in {"head", "branch", "mkbranch", "file", "putfile", "pr", "patch", "mkpr", "other"}
             => repo.exists
        /\ t.pc \in {"file", "putfile", "pr", "patch", "mkpr", "other"} => repo.branch
        /\ t.pc \in {"branch", "mkbranch", "file", "putfile"} => provider = "github"
        /\ t.pc \in {"pr", "patch", "mkpr", "other"} /\ provider = "github" => repo.file = "current"
        /\ t.pc = "patch" => t.pr \in Found
        /\ t.pc = "other" => Matches(t.pr)
        /\ t.clean => Clean /\ t.pc \notin WritePcs

(* Every step keeps every run's progress.                                  *)
LEMMA ProgressStep ==
  Types /\ OneOpen /\ (\A r \in Runs : Progress(r)) /\ [Next]_vars => (\A r \in Runs : Progress(r))'
<1> SUFFICES ASSUME Types, OneOpen, \A r \in Runs : Progress(r), [Next]_vars, NEW q \in Runs
             PROVE  Progress(q)'
  OBVIOUS
<1>1. /\ prs \in Seq(PullRequests) /\ Len(prs) \in Nat /\ Numbers = 1..Len(prs)
      /\ provider \in {"github", "ado"} /\ tool \in [Runs -> Invocations]
  BY DEF Types, HostTypes, ToolTypes, Numbers
<1>2. prs' \in Seq(PullRequests) /\ Numbers' = 1..Len(prs')
  BY TypesStep DEF Types, HostTypes, Numbers
<1>3. CASE OthersEdit
  <2>1. ~tool'[q].quiet
    BY <1>1, <1>3 DEF OthersEdit, Invocations
  <2> QED BY <2>1 DEF Progress
<1>4. ASSUME ~OthersEdit, tool'[q] = tool[q] PROVE Progress(q)'
  <2>1. \A n : n \in Found => n \in Found'
    BY <1>4, FixtureStays DEF Found
  <2> QED BY <1>4, <2>1, FixtureStays DEF Progress
<1>5. ASSUME ~OthersEdit, RunStep(q), tool'[q].quiet PROVE Progress(q)'
  <2> DEFINE t == tool[q]
             u == tool'[q]
  <2>1. /\ provider' = provider
        /\ repo.exists => repo'.exists
        /\ repo.branch => repo'.branch
        /\ repo.file = "current" => repo'.file = "current"
        /\ \A n : Matches(n) => Matches(n)'
        /\ Clean => Clean'
    BY <1>5, FixtureStays
  <2>2. CASE u.pc \in {"failed", "repo"} /\ u.clean = Clean
    BY <1>5, <2>1, <2>2 DEF Progress, WritePcs
  <2>3. CASE Remembers(q) /\ Applies(q)
    <3>1. t.quiet /\ u.clean = t.clean /\ (t.clean => Clean)
      BY <1>5, <2>3 DEF Remembers, Progress
    <3>2. CASE Goes(q, "repo", IF repo.exists THEN "head" ELSE "mkrepo") /\ UNCHANGED host
      <4>1. Clean => repo.exists
        BY DEF Clean
      <4> QED BY <2>1, <3>1, <3>2, <4>1 DEF Goes, Progress, WritePcs, host
    <3>3. CASE Goes(q, "mkrepo", "head") /\ repo'.exists
      BY <2>1, <3>1, <3>3 DEF Goes, Progress, WritePcs
    <3>4. CASE /\ Goes(q, "head", IF provider = "github" THEN "branch" ELSE "pr")
               /\ repo.exists /\ (provider = "ado" => repo.branch)
      BY <1>1, <2>1, <3>1, <3>4 DEF Goes, Progress, WritePcs
    <3>5. CASE Goes(q, "branch", IF repo.branch THEN "file" ELSE "mkbranch") /\ UNCHANGED host
      <4>1. Clean => repo.branch
        BY DEF Clean
      <4> QED BY <2>1, <3>1, <3>5, <4>1 DEF Goes, Progress, WritePcs, host
    <3>6. CASE Goes(q, "mkbranch", "file") /\ repo'.branch
      BY <2>1, <3>1, <3>6 DEF Goes, Progress, WritePcs
    <3>7. CASE Goes(q, "file", IF repo.file = "current" THEN "pr" ELSE "putfile") /\ repo.branch
      <4>1. Clean /\ provider = "github" => repo.file = "current"
        BY DEF Clean
      <4> QED BY <2>1, <3>1, <3>7, <4>1 DEF Goes, Progress, WritePcs
    <3>8. CASE Goes(q, "putfile", "pr") /\ repo'.file = "current"
      BY <2>1, <3>1, <3>8 DEF Goes, Progress, WritePcs
    <3>9. CASE Goes(q, "pr", "mkpr") /\ Found = {} /\ UNCHANGED host
      <4>1. ~Clean
        BY <3>9 DEF Clean, Matches, Found
      <4> QED BY <2>1, <3>1, <3>9, <4>1 DEF Goes, Progress, WritePcs, host
    <3>10. CASE /\ t.pc = "pr" /\ u.pr \in Found /\ UNCHANGED host
                /\ u.pc = IF prs[u.pr].body THEN "other" ELSE "patch"
      <4>1. u.pc = "other" => Matches(u.pr)
        BY <3>10 DEF Found, Matches
      <4>2. Clean => prs[u.pr].body
        BY <3>10 DEF Clean, Matches, Found, OneOpen
      <4>3. u.pr \in Found'
        BY <3>10 DEF host, Found, Numbers
      <4> QED BY <2>1, <3>1, <3>10, <4>1, <4>2, <4>3 DEF Progress, WritePcs
    <3>11. CASE /\ Goes(q, "patch", "other") /\ u.pr = t.pr
                /\ prs' = [prs EXCEPT ![t.pr].body = TRUE]
      <4>1. t.pr \in Found /\ t.pr \in 1..Len(prs) /\ prs[t.pr] \in PullRequests
        BY <1>1, <3>1, <3>11 DEF Progress, Goes, Found
      <4> DEFINE new == [prs[t.pr] EXCEPT !.body = TRUE]
      <4>2. prs' = [prs EXCEPT ![t.pr] = new]
        BY <3>11, Zenon
      <4>3. new.title = prs[t.pr].title /\ new.body /\ new.open = prs[t.pr].open
        BY <4>1 DEF PullRequests
      <4> HIDE DEF new
      <4>4. prs'[t.pr] = new /\ Len(prs') = Len(prs)
        BY <1>1, <4>1, <4>2
      <4>5. Matches(tool[q].pr)'
        BY <1>2, <3>11, <4>1, <4>3, <4>4 DEF Matches, Found
      <4> QED BY <2>1, <3>1, <3>11, <4>5 DEF Goes, Progress, WritePcs
    <3>12. CASE /\ Goes(q, "mkpr", "other") /\ u.pr = Len(prs) + 1
                /\ prs' = Append(prs, NewPr(TRUE))
      <4> DEFINE new == NewPr(TRUE)
      <4>1. prs' = Append(prs, new) /\ u.pr = Len(prs) + 1
        BY <3>12
      <4>2. new.title /\ new.body /\ new.open
        BY DEF NewPr
      <4> HIDE DEF new, u
      <4>3. prs'[Len(prs) + 1] = new /\ Len(prs') = Len(prs) + 1
        BY <1>1, <4>1
      <4>4. u.pr \in Numbers' /\ prs'[u.pr] = new
        BY <1>1, <1>2, <4>1, <4>3
      <4>5. Matches(tool[q].pr)'
        BY <4>2, <4>4 DEF Matches, u
      <4> QED BY <2>1, <3>1, <3>12, <4>5 DEF Goes, Progress, WritePcs, u
    <3>13. CASE u.pc \in {"failed", "applied", "matches", "swept", "sweep"}
      BY <2>1, <3>1, <3>13 DEF Progress, WritePcs
    <3> QED
      BY <2>3, <3>2, <3>3, <3>4, <3>5, <3>6, <3>7, <3>8, <3>9, <3>10, <3>11, <3>12, <3>13 DEF Applies
  <2> QED BY <1>5, <2>2, <2>3, RunTurns
<1>6. ASSUME ~OthersEdit, NEW r \in Runs, RunStep(r) PROVE Progress(q)'
  <2>1. CASE r = q
    BY <1>5, <1>6, <2>1 DEF Progress
  <2>2. CASE r # q
    <3>1. tool'[q] = tool[q]
      BY <1>6, <2>2, RunTurns DEF Turn
    <3> QED BY <1>4, <1>6, <3>1
  <2> QED BY <2>1, <2>2
<1> QED
  BY <1>3, <1>4, <1>6 DEF Next, vars, env

(* An apply that succeeded leaves the fixture as the manifest says, and no *)
(* step but an edit changes that.                                          *)
LEMMA AppliedStep ==
  Types /\ (\A r \in Runs : Progress(r)) /\ AppliedIsVerified /\ [Next]_vars => AppliedIsVerified'
<1> SUFFICES ASSUME Types, \A r \in Runs : Progress(r), AppliedIsVerified, [Next]_vars
             PROVE  AppliedIsVerified'
  OBVIOUS
<1>1. CASE OthersEdit
  BY <1>1 DEF OthersEdit, AppliedIsVerified
<1>2. ASSUME ~OthersEdit, UNCHANGED << lock, torn, applied >> PROVE AppliedIsVerified'
  BY <1>2, FixtureStays DEF AppliedIsVerified, Verified
<1>3. ASSUME NEW r \in Runs, WriteLock(r) PROVE AppliedIsVerified'
  <2>1. /\ tool[r].pc = "other" /\ lock' = tool[r].pr /\ torn' = FALSE
        /\ applied' = tool[r].quiet /\ UNCHANGED host
    BY <1>3 DEF WriteLock, At
  <2>2. CASE ~tool[r].quiet
    BY <2>1, <2>2 DEF AppliedIsVerified
  <2>3. CASE tool[r].quiet
    <3>1. repo.exists /\ repo.branch /\ (provider = "github" => repo.file = "current")
          /\ Matches(tool[r].pr)
      BY <2>1, <2>3 DEF Progress
    <3>2. Clean'
      BY <2>1, <3>1 DEF Clean, Matches, Numbers, host
    <3>3. Verified'
      BY <2>1, <3>1 DEF Verified, Matches, Numbers, host
    <3> QED BY <3>2, <3>3 DEF AppliedIsVerified
  <2> QED BY <2>2, <2>3
<1>4. ASSUME NEW r \in Runs, TearLock(r) PROVE AppliedIsVerified'
  BY <1>4 DEF TearLock, AppliedIsVerified
<1>5. ASSUME ~OthersEdit, NEW r \in Runs, RunStep(r), ~WriteLock(r), ~TearLock(r)
      PROVE  AppliedIsVerified'
  <2>1. UNCHANGED << lock, torn, applied >>
    BY <1>5 DEF RunStep, Apply, GetRepo, HeadSha, GetBranch, GetFile, ListPrs, Write, CreateRepo,
                CreateBranch, PutFile, PatchBody, CreatePr, Delete, Writes, Verify,
                ListComments, SweepDone, Stop, LoseAnswer, Nothing
  <2> QED BY <1>2, <1>5, <2>1, Zenon
<1> QED
  BY <1>1, <1>2, <1>3, <1>4, <1>5 DEF Next, vars, env

-----------------------------------------------------------------------------
(* The review. *)

(* The line comments of review v.                                          *)
Lines(cs, v) == {i \in DOMAIN cs : cs[i].of = v /\ cs[i].kind = "line"}

(* On Azure DevOps a review under way has posted the parts before this one.*)
PartsPosted ==
  \A c \in Callers :
    call[c].op = "review" /\ provider = "ado" =>
      Cardinality(Lines(comments, call[c].review)) >= call[c].part - 1

(* There are never fewer of them.                                          *)
LEMMA LinesGrow ==
  ASSUME HostTypes, CommentsMove, NEW v
  PROVE  /\ IsFiniteSet(Lines(comments, v)) /\ IsFiniteSet(Lines(comments', v))
         /\ Lines(comments, v) \subseteq 1..Len(comments)
         /\ Lines(comments, v) \subseteq Lines(comments', v)
         /\ Cardinality(Lines(comments, v)) \in Nat /\ Cardinality(Lines(comments', v)) \in Nat
         /\ Cardinality(Lines(comments, v)) <= Cardinality(Lines(comments', v))
<1>1. /\ comments \in Seq(Remarks) /\ DOMAIN comments = 1..Len(comments) /\ Len(comments) \in Nat
      /\ comments' \in Seq(Remarks) /\ DOMAIN comments' = 1..Len(comments') /\ Len(comments') \in Nat
  BY DEF HostTypes, CommentsMove
<1>2. Lines(comments, v) \subseteq 1..Len(comments) /\ Lines(comments', v) \subseteq 1..Len(comments')
  BY <1>1 DEF Lines
<1>3. IsFiniteSet(1..Len(comments)) /\ IsFiniteSet(1..Len(comments'))
  BY <1>1, FS_Interval
<1>4. Lines(comments, v) \subseteq Lines(comments', v)
  BY <1>1 DEF Lines, CommentsMove
<1>5. IsFiniteSet(Lines(comments, v)) /\ IsFiniteSet(Lines(comments', v))
  BY <1>2, <1>3, FS_Subset
<1> QED
  BY <1>2, <1>4, <1>5, FS_Subset, FS_CardinalityType

(* A review goes on to its next part when this one is on the host.         *)
LEMMA PartsStep == Types /\ PartsPosted /\ [Next]_vars => PartsPosted'
<1> SUFFICES ASSUME Types, PartsPosted, [Next]_vars, NEW c \in Callers,
                    call'[c].op = "review", provider' = "ado"
             PROVE  Cardinality(Lines(comments', call'[c].review)) >= call'[c].part - 1
  BY DEF PartsPosted
<1> DEFINE v == call'[c].review
<1>1. /\ HostTypes /\ CommentsMove /\ provider = "ado"
      /\ comments \in Seq(Remarks) /\ DOMAIN comments = 1..Len(comments) /\ Len(comments) \in Nat
  BY HostMoves DEF Types, HostTypes, HostMove
<1>2. CallMove(c)
  BY CallsMove
<1>3. call[c].part \in Int
  BY AdaptersAssumption DEF Types, CallTypes, Calls
<1>4. LET old == Lines(comments, v)
          new == Lines(comments', v)
      IN  /\ IsFiniteSet(old) /\ IsFiniteSet(new)
          /\ old \subseteq 1..Len(comments) /\ old \subseteq new
          /\ Cardinality(old) \in Nat /\ Cardinality(new) \in Nat
          /\ Cardinality(old) <= Cardinality(new)
  <2> HIDE DEF v
  <2> QED BY <1>1, LinesGrow
<1>5. CASE call[c].op = "review" /\ v = call[c].review /\ call'[c].part = call[c].part
  BY <1>1, <1>3, <1>4, <1>5 DEF PartsPosted
<1>6. CASE call'[c].part = 0
  BY <1>4, <1>6
<1>7. CASE /\ PostPart(c) /\ call[c].op = "review" /\ ~LastPart(call[c].part)
           /\ v = call[c].review /\ call'[c].part = call[c].part + 1
  <2> DEFINE k == call[c].part
  <2>1. Posted(v, k) /\ k # LineParts + 1
    BY <1>7 DEF PostPart, LastPart
  <2>2. Cardinality(Lines(comments, v)) >= k - 1 /\ k \in 0..LineParts + 1
    BY <1>1, <1>7 DEF PartsPosted, Types, CallTypes, Calls
  <2>3. CASE k = 0
    BY <1>4, <1>7, <2>3
  <2>4. CASE k # 0
    <3> DEFINE new == LineComment(v)
               n   == Len(comments) + 1
    <3>1. comments' = Append(comments, new)
      BY <1>1, <2>1, <2>4 DEF Posted, Part
    <3>2. new.of = v /\ new.kind = "line"
      BY DEF LineComment, NewComment
    <3> HIDE DEF new
    <3>3. n \in Lines(comments', v) /\ n \notin Lines(comments, v)
      BY <1>1, <1>4, <3>1, <3>2 DEF Lines
    <3>4. Lines(comments, v) \cup {n} \subseteq Lines(comments', v)
      BY <1>4, <3>3
    <3>5. /\ Cardinality(Lines(comments, v) \cup {n}) = Cardinality(Lines(comments, v)) + 1
          /\ IsFiniteSet(Lines(comments, v) \cup {n})
      BY <1>4, <3>3, FS_AddElement
    <3>6. Cardinality(Lines(comments, v) \cup {n}) <= Cardinality(Lines(comments', v))
      BY <1>4, <3>4, FS_Subset
    <3>7. Cardinality(Lines(comments', v)) >= k
      <4> HIDE DEF n, v
      <4> QED BY <1>3, <1>4, <2>2, <3>5, <3>6
    <3> QED BY <1>3, <1>7, <3>7
  <2> QED BY <2>3, <2>4
<1> QED
  BY <1>2, <1>5, <1>6, <1>7 DEF CallMove

(* A vote is cast with its line comments, or after them; and they stay.    *)
LEMMA VoteStep == Types /\ PartsPosted /\ VoteHasReasons /\ [Next]_vars => VoteHasReasons'
<1> SUFFICES ASSUME Types, PartsPosted, VoteHasReasons, [Next]_vars,
                    NEW n \in Numbers', NEW v \in prs'[n].votes
             PROVE  Cardinality(Lines(comments', v)) >= LineParts
  BY DEF VoteHasReasons, Lines
<1>1. /\ HostTypes /\ provider \in {"github", "ado"}
      /\ prs \in Seq(PullRequests) /\ Len(prs) \in Nat /\ Numbers = 1..Len(prs)
      /\ comments \in Seq(Remarks) /\ DOMAIN comments = 1..Len(comments) /\ Len(comments) \in Nat
      /\ LineParts \in Nat
  BY AdaptersAssumption DEF Types, HostTypes, Numbers
<1>2. PrsMove /\ CommentsMove
  BY HostMoves DEF HostMove
<1>3. prs' \in Seq(PullRequests) /\ Len(prs') \in Nat /\ Numbers' = 1..Len(prs')
  BY TypesStep DEF Types, HostTypes, Numbers
<1>4. /\ IsFiniteSet(Lines(comments', v)) /\ Cardinality(Lines(comments, v)) \in Nat
      /\ Cardinality(Lines(comments', v)) \in Nat
      /\ Cardinality(Lines(comments, v)) <= Cardinality(Lines(comments', v))
  BY <1>1, <1>2, LinesGrow
<1>5. CASE Cardinality(Lines(comments, v)) >= LineParts
  BY <1>1, <1>4, <1>5
<1>6. CASE Votes(v)
  <2>1. PICK c \in Callers : /\ call[c].op = "review" /\ call[c].review = v
                             /\ Posted(v, call[c].part)
                             /\ provider = "github" \/ call[c].part = LineParts + 1
    BY <1>6 DEF Votes
  <2>2. CASE provider = "ado"
    <3>1. Cardinality(Lines(comments, v)) >= (LineParts + 1) - 1
      BY <2>1, <2>2 DEF PartsPosted
    <3> QED BY <1>1, <1>4, <3>1
  <2>3. CASE provider = "github"
    <3> DEFINE new  == [i \in 1..LineParts |-> LineComment(v)]
               here == Len(comments) + 1 .. Len(comments) + LineParts
    <3>1. comments' = comments \o new
      BY <2>1, <2>3 DEF Posted
    <3>2. v \in Nat /\ Commented \in Nat
      BY <1>1, <2>1, CommentedType, AdaptersAssumption DEF Types, CallTypes
    <3>3. LineComment(v) \in Remarks /\ LineComment(v).of = v /\ LineComment(v).kind = "line"
      BY <3>2 DEF LineComment, NewComment, Remarks
    <3>4. new \in Seq(Remarks) /\ Len(new) = LineParts
      BY <1>1, <3>3
    <3>5. \A i \in 1..LineParts : new[i].of = v /\ new[i].kind = "line"
      BY <3>3
    <3> HIDE DEF new
    <3>6. /\ Len(comments') = Len(comments) + LineParts /\ DOMAIN comments' = 1..Len(comments')
          /\ \A i \in here : comments'[i] = new[i - Len(comments)]
      <4>1. Len(comments \o new) = Len(comments) + Len(new)
        BY <1>1, <3>4
      <4>2. DOMAIN comments' = 1..Len(comments')
        BY <1>2 DEF CommentsMove
      <4>3. ASSUME NEW i \in here PROVE comments'[i] = new[i - Len(comments)]
        BY <1>1, <3>1, <3>4
      <4> QED BY <3>1, <3>4, <4>1, <4>2, <4>3
    <3>7. here \subseteq Lines(comments', v)
      BY <1>1, <3>5, <3>6 DEF Lines
    <3>8. IsFiniteSet(here) /\ Cardinality(here) = LineParts
      <4> DEFINE a == Len(comments) + 1
                 b == Len(comments) + LineParts
      <4>1. a \in Int /\ b \in Int /\ a <= b /\ b - a + 1 = LineParts
        BY <1>1, AdaptersAssumption
      <4> HIDE DEF a, b
      <4>2. IsFiniteSet(a..b) /\ Cardinality(a..b) = LineParts
        BY <4>1, FS_Interval
      <4> QED BY <4>2 DEF a, b
    <3>9. Cardinality(here) <= Cardinality(Lines(comments', v))
      BY <1>4, <3>7, FS_Subset
    <3> QED BY <3>8, <3>9
  <2> QED BY <1>1, <2>2, <2>3
<1>7. ASSUME NEW b \in BOOLEAN, prs' = Append(prs, NewPr(b))
      PROVE  Cardinality(Lines(comments', v)) >= LineParts
  <2>1. NewPr(b).votes = {}
    BY DEF NewPr
  <2>2. /\ Len(prs') = Len(prs) + 1 /\ prs'[Len(prs) + 1] = NewPr(b)
        /\ \A m \in 1..Len(prs) : prs'[m] = prs[m]
    BY <1>1, <1>7
  <2>3. n \in 1..Len(prs) /\ v \in prs[n].votes
    BY <1>1, <1>3, <2>1, <2>2
  <2> QED BY <1>1, <1>5, <2>3 DEF VoteHasReasons, Lines
<1>8. ASSUME Len(prs') = Len(prs),
             \A m \in 1..Len(prs) : \A w \in prs'[m].votes \ prs[m].votes : Votes(w)
      PROVE  Cardinality(Lines(comments', v)) >= LineParts
  <2>1. n \in Numbers
    BY <1>1, <1>3, <1>8
  <2>2. v \in prs[n].votes \/ Votes(v)
    BY <1>1, <1>8, <2>1
  <2> QED BY <1>5, <1>6, <2>1, <2>2 DEF VoteHasReasons, Lines
<1> QED
  BY <1>2, <1>7, <1>8 DEF PrsMove

-----------------------------------------------------------------------------
(* The sweep. *)

(* A stray comment is deleted or yet to be: nothing is forgotten.          *)
Sweeping(r) ==
  LET t == tool[r]
  IN  t.pc \in {"sweep", "swept"} =>
        \A i \in t.stray : /\ i \in 1..Len(comments)
                           /\ comments[i].deleted \/ (t.pc = "sweep" /\ i \in t.todo)

(* Every step keeps it so.                                                 *)
LEMMA SweepingStep ==
  Types /\ (\A r \in Runs : Sweeping(r)) /\ [Next]_vars => (\A r \in Runs : Sweeping(r))'
<1> SUFFICES ASSUME Types, \A r \in Runs : Sweeping(r), [Next]_vars, NEW q \in Runs
             PROVE  Sweeping(q)'
  OBVIOUS
<1>1. /\ HostTypes /\ ToolTypes /\ comments \in Seq(Remarks) /\ Len(comments) \in Nat
      /\ tool \in [Runs -> Invocations]
  BY DEF Types, HostTypes, ToolTypes
<1>2. /\ comments' \in Seq(Remarks) /\ Len(comments) <= Len(comments') /\ Len(comments') \in Nat
      /\ \A i \in 1..Len(comments) : comments[i].deleted => comments'[i].deleted
  BY HostMoves DEF HostMove, CommentsMove
<1>3. ASSUME tool'[q].pc = tool[q].pc, tool'[q].stray = tool[q].stray, tool'[q].todo = tool[q].todo
      PROVE  Sweeping(q)'
  BY <1>1, <1>2, <1>3 DEF Sweeping
<1>4. CASE OthersEdit
  BY <1>1, <1>3, <1>4 DEF OthersEdit, Invocations
<1>5. CASE ListComments(q)
  <2>1. /\ tool'[q].pc = "sweep" /\ tool'[q].stray = Stray /\ tool'[q].todo = Stray
        /\ Stray \subseteq 1..Len(comments) /\ comments' = comments
    BY <1>1, <1>5, ListMoves DEF Goes
  <2> QED BY <2>1 DEF Sweeping
<1>6. CASE Delete(q)
  <2>1. /\ tool[q].pc = "sweep" /\ tool'[q].pc = "sweep" /\ tool'[q].stray = tool[q].stray
        /\ \E i : /\ tool'[q].todo = tool[q].todo \ {i}
                 /\ comments' = [comments EXCEPT ![i].deleted = TRUE]
    BY <1>1, <1>6, DeleteMoves DEF Goes
  <2>2. PICK i : /\ tool'[q].todo = tool[q].todo \ {i}
                 /\ comments' = [comments EXCEPT ![i].deleted = TRUE]
    BY <2>1
  <2>3. i \in 1..Len(comments) => comments'[i].deleted
    <3> DEFINE m == [comments[i] EXCEPT !.deleted = TRUE]
    <3>1. comments' = [comments EXCEPT ![i] = m]
      BY <2>2, Zenon
    <3>2. i \in 1..Len(comments) => m.deleted
      BY <1>1 DEF Remarks
    <3> HIDE DEF m
    <3> QED BY <1>1, <3>1, <3>2
  <2> QED BY <1>1, <1>2, <2>1, <2>2, <2>3 DEF Sweeping
<1>7. CASE SweepDone(q)
  <2>1. "swept" \in Pcs /\ At(q, "sweep", "swept") /\ tool[q].todo = {}
    BY <1>7 DEF SweepDone, Pcs
  <2>2. /\ tool[q].pc = "sweep" /\ tool'[q].pc = "swept" /\ tool'[q].stray = tool[q].stray
    BY <1>1, <2>1, AtMoves DEF Goes
  <2> QED BY <1>1, <1>2, <2>1, <2>2 DEF Sweeping
<1>8. ASSUME NEW r \in Runs, RunStep(r) PROVE Sweeping(q)'
  <2>1. CASE r = q
    BY <1>5, <1>6, <1>7, <1>8, <2>1, RunTurns DEF Sweeping
  <2>2. CASE r # q
    <3>1. tool'[q] = tool[q]
      BY <1>8, <2>2, RunTurns DEF Turn
    <3> QED BY <1>3, <3>1
  <2> QED BY <2>1, <2>2
<1>9. CASE UNCHANGED env
  BY <1>3, <1>9 DEF env
<1> QED
  BY <1>4, <1>8, <1>9 DEF Next, vars

-----------------------------------------------------------------------------
(* Listings. *)

(* What is to be listed, and which of two entries is listed first.         *)
Entries(op) ==
  IF op = "prs" THEN {n \in DOMAIN prs : prs[n].open} ELSE {i \in DOMAIN comments : Shown(comments[i])}
Ahead(op, y, x) == Before(ListingOver(op), y, x)

(* The place of x among the entries S.                                     *)
Rank(op, S, x) == Cardinality({y \in S : y = x \/ Ahead(op, y, x)})

(* The entries of S whose place is beyond reach.                           *)
Past(op, S, reach) == {x \in S : Rank(op, S, x) > reach}

(* The first k places were read: an entry that stayed was found, or its    *)
(* place is to come, or one before it left; and where nothing came, what   *)
(* was found is there once and its place is not to come.                   *)
Read(op, S, from, left, found, came, k) ==
  /\ \A x \in from \ left :
       /\ x \in S
       /\ x \in ToSet(found) \/ Rank(op, S, x) > k \/ \E y \in left : Ahead(op, y, x)
  /\ came \/ (IsInjective(found) /\ \A x \in ToSet(found) \cap S : Rank(op, S, x) <= k)

(* A listing under way, of the entries S on the host p, of which it reads  *)
(* at most reach.                                                          *)
Under(p, S, reach, a) ==
  /\ a.page \in Nat \ {0} /\ a.found \in Seq(Nat) /\ a.came \in BOOLEAN
  /\ p = "github" => a.page <= MaxPages
  /\ p = "ado" => a.page = 1
  /\ \A x \in S : Rank(a.op, S, x) > reach => x \in a.beyond
  /\ Read(a.op, S, a.from, a.left, a.found, a.came, (a.page - 1) * PageSize)

(* What ListingExact says of one that is over.                             *)
Exact(a) ==
  /\ \A x \in a.from \ a.left :
       x \in ToSet(a.found) \/ x \in a.beyond \/ \E y \in a.left : Before(a.op, y, x)
  /\ a.came \/ IsInjective(a.found)

Exactly(p, S, reach, a) ==
  /\ a.op \in {"prs", "comments"} => Under(p, S, reach, a)
  /\ a.op \in {"listed_prs", "listed_comments"} => Exact(a)

ListingAt(c) == Exactly(provider, Entries(call[c].op), Reach(call[c].op), call[c])
ListingsExact == \A c \in Callers : ListingAt(c)

(* L is the entries S in their order.                                      *)
Lists(op, S, L) ==
  /\ L \in Seq(S) /\ Len(L) = Cardinality(S)
  /\ \A i, j \in 1..Cardinality(S) : i < j => Ahead(op, L[i], L[j])
  /\ \A x \in S : \E i \in 1..Cardinality(S) : L[i] = x

(* Where all that is up to x in S is in T, its place in T is no earlier.   *)
LEMMA RankKept ==
  ASSUME NEW op \in {"prs", "comments"}, NEW S \in SUBSET Nat, IsFiniteSet(S),
         NEW T \in SUBSET Nat, IsFiniteSet(T), NEW x,
         \A y \in S : y = x \/ Ahead(op, y, x) => y \in T
  PROVE  Rank(op, S, x) \in Nat /\ Rank(op, T, x) \in Nat /\ Rank(op, S, x) <= Rank(op, T, x)
<1> DEFINE Up(U) == {y \in U : y = x \/ Ahead(op, y, x)}
<1>1. Up(S) \subseteq S /\ Up(T) \subseteq T /\ Up(S) \subseteq Up(T)
  OBVIOUS
<1>2. IsFiniteSet(Up(S)) /\ IsFiniteSet(Up(T))
  BY <1>1, FS_Subset
<1>3. Cardinality(Up(S)) \in Nat /\ Cardinality(Up(T)) \in Nat /\ Cardinality(Up(S)) <= Cardinality(Up(T))
  BY <1>1, <1>2, FS_Subset, FS_CardinalityType
<1> QED BY <1>3 DEF Rank

(* Which entry is first is an order.                                       *)
LEMMA AheadIsOrder ==
  ASSUME NEW op \in {"prs", "comments"}, NEW x \in Nat, NEW y \in Nat
  PROVE  ~(Ahead(op, x, y) /\ Ahead(op, y, x)) /\ ~Ahead(op, x, x)
BY DEF Ahead, Before, ListingOver

(* The place of an entry is where it is listed.                            *)
LEMMA RankIsPlace ==
  ASSUME NEW op \in {"prs", "comments"}, NEW S \in SUBSET Nat, IsFiniteSet(S),
         NEW L, Lists(op, S, L), NEW i \in 1..Cardinality(S)
  PROVE  L[i] \in S /\ Rank(op, S, L[i]) = i
<1> DEFINE n  == Cardinality(S)
           Up == {y \in S : y = L[i] \/ Ahead(op, y, L[i])}
           g  == [j \in 1..i |-> L[j]]
<1>1. n \in Nat /\ i \in 1..n
  BY FS_CardinalityType
<1>2. /\ \A j \in 1..n : L[j] \in S
      /\ \A j, k \in 1..n : j < k => Ahead(op, L[j], L[k])
      /\ \A x \in S : \E j \in 1..n : L[j] = x
  BY <1>1 DEF Lists
<1> HIDE DEF n
<1>3. ASSUME NEW j \in 1..n PROVE L[j] \in Up <=> j <= i
  <2>1. L[j] \in Nat /\ L[i] \in Nat
    BY <1>1, <1>2
  <2>2. CASE j <= i
    <3>1. j = i \/ j < i
      BY <1>1, <2>2
    <3>2. L[j] = L[i] \/ Ahead(op, L[j], L[i])
      BY <1>1, <1>2, <3>1
    <3> QED BY <1>2, <2>2, <3>2
  <2>3. CASE i < j
    <3>1. Ahead(op, L[i], L[j])
      BY <1>1, <1>2, <2>3
    <3> QED BY <1>1, <2>1, <2>3, <3>1, AheadIsOrder
  <2> QED BY <1>1, <2>2, <2>3
<1>4. g \in Surjection(1..i, Up)
  <2>1. \A j \in 1..i : L[j] \in Up
    BY <1>1, <1>3
  <2>2. \A x \in Up : \E j \in 1..i : L[j] = x
    <3> SUFFICES ASSUME NEW x \in Up PROVE \E j \in 1..i : L[j] = x
      OBVIOUS
    <3>1. PICK j \in 1..n : L[j] = x
      BY <1>2
    <3>2. j \in 1..i
      BY <1>1, <1>3, <3>1
    <3> QED BY <3>1, <3>2
  <2> HIDE DEF Up
  <2> QED BY <2>1, <2>2 DEF Surjection
<1>5. ASSUME NEW j \in 1..i, NEW k \in 1..i, g[j] = g[k] PROVE j = k
  <2>1. L[j] = L[k]
    BY <1>5
  <2> HIDE DEF g, Up
  <2>2. j \in 1..n /\ k \in 1..n /\ j \in Nat /\ k \in Nat
    BY <1>1
  <2>3. L[j] \in Nat /\ L[k] \in Nat
    BY <1>2, <2>2
  <2>4. ~(j < k) /\ ~(k < j)
    BY <1>2, <2>1, <2>2, <2>3, AheadIsOrder
  <2> QED BY <2>2, <2>4
<1>6. g \in Injection(1..i, Up)
  <2> HIDE DEF Up
  <2> QED BY <1>4, <1>5 DEF Surjection, Injection, IsInjective
<1>7. IsFiniteSet(1..i) /\ Cardinality(1..i) = i
  BY <1>1, FS_Interval
<1>8. Cardinality(Up) = i
  <2> HIDE DEF Up, g
  <2> QED BY <1>4, <1>6, <1>7, FS_Surjection
<1> QED BY <1>2, <1>8 DEF Rank, n

(* The adapters are given the entries in their order.                      *)
LEMMA ListingIs ==
  ASSUME HostTypes, NEW op \in {"prs", "comments"}
  PROVE  /\ Entries(op) \in SUBSET Nat /\ IsFiniteSet(Entries(op))
         /\ Lists(op, Entries(op), Listing(op))
         /\ Listed(op) = Entries(op)
<1> DEFINE S == Entries(op)
           n == Cardinality(S)
           L == Listing(op)
           f == InOrder(S)
<1>1. S \in SUBSET Nat /\ IsFiniteSet(S)
  <2>1. /\ DOMAIN prs = 1..Len(prs) /\ Len(prs) \in Nat
        /\ DOMAIN comments = 1..Len(comments) /\ Len(comments) \in Nat
    BY DEF HostTypes
  <2>2. IsFiniteSet(1..Len(prs)) /\ IsFiniteSet(1..Len(comments))
    BY <2>1, FS_Interval
  <2>3. S \subseteq 1..Len(prs) \/ S \subseteq 1..Len(comments)
    BY <2>1 DEF Entries
  <2> HIDE DEF S
  <2>4. IsFiniteSet(S)
    BY <2>2, <2>3, FS_Subset
  <2> QED BY <2>3, <2>4
<1>2. L = IF op = "prs" THEN Reverse(f) ELSE f
  BY Zenon DEF Listing, OpenPrs, PrComments, Entries, Numbers
<1> HIDE DEF S, L
<1>3. /\ n \in Nat /\ f \in Seq(S) /\ Len(f) = n
      /\ \A i \in 1..n : f[i] \in S
      /\ \A i, j \in 1..n : i < j => f[i] < f[j]
      /\ \A x \in S : \E i \in 1..n : f[i] = x
  BY <1>1, InOrderIs
<1> HIDE DEF f, n
<1>4. ASSUME op = "comments" PROVE Lists(op, S, L)
  <2>1. \A x, y \in Nat : Ahead(op, x, y) <=> x < y
    BY <1>4 DEF Ahead, Before, ListingOver
  <2>2. L = f
    BY <1>2, <1>4
  <2>3. \A i, j \in 1..n : i < j => Ahead(op, L[i], L[j])
    BY <1>1, <1>3, <2>1, <2>2
  <2> QED BY <1>3, <2>2, <2>3 DEF Lists, n
<1>5. ASSUME op = "prs" PROVE Lists(op, S, L)
  <2>1. \A x, y \in Nat : Ahead(op, x, y) <=> x > y
    BY <1>5 DEF Ahead, Before, ListingOver
  <2>2. L = [i \in 1..n |-> f[(n - i) + 1]]
    BY <1>2, <1>3, <1>5 DEF Reverse
  <2>3. ASSUME NEW i \in 1..n PROVE (n - i) + 1 \in 1..n /\ L[i] = f[(n - i) + 1] /\ L[i] \in S
    BY <1>3, <2>2
  <2>4. L \in Seq(S) /\ Len(L) = n
    BY <1>3, <2>2, <2>3
  <2>5. ASSUME NEW i \in 1..n, NEW j \in 1..n, i < j PROVE L[i] > L[j]
    <3>1. (n - j) + 1 < (n - i) + 1 /\ (n - i) + 1 \in 1..n /\ (n - j) + 1 \in 1..n
      BY <1>3, <2>5
    <3>2. f[(n - j) + 1] < f[(n - i) + 1]
      BY <1>3, <3>1
    <3> QED BY <1>1, <2>3, <3>2
  <2>6. ASSUME NEW x \in S PROVE \E i \in 1..n : L[i] = x
    <3>1. PICK j \in 1..n : f[j] = x
      BY <1>3
    <3>2. (n - j) + 1 \in 1..n /\ (n - ((n - j) + 1)) + 1 = j
      BY <1>3
    <3> QED BY <2>3, <3>1, <3>2
  <2>7. \A i, j \in 1..n : i < j => Ahead(op, L[i], L[j])
    BY <1>1, <2>1, <2>3, <2>5
  <2> QED BY <2>4, <2>6, <2>7 DEF Lists, n
<1>6. Lists(op, S, L)
  BY <1>4, <1>5
<1>7. ToSet(L) = S
  <2>1. L \in Seq(S) /\ Len(L) = n /\ \A x \in S : \E i \in 1..n : L[i] = x
    BY <1>6 DEF Lists, n
  <2>2. DOMAIN L = 1..n /\ \A i \in 1..n : L[i] \in S
    BY <1>3, <2>1
  <2> QED BY <2>1, <2>2 DEF ToSet
<1> QED BY <1>1, <1>6, <1>7 DEF S, L, Listed

(* What is on a page.                                                      *)
LEMMA SliceIs ==
  ASSUME NEW S, NEW L \in Seq(S), NEW k \in Nat, NEW K \in Nat,
         NEW page, page = Slice(L, k + 1, k + K)
  PROVE  /\ page \in Seq(S)
         /\ \A i \in 1..Len(page) : i <= K /\ k + i \in 1..Len(L) /\ page[i] = L[k + i]
         /\ \A j \in k + 1 .. k + K : j <= Len(L) => j - k \in 1..Len(page)
<1> DEFINE n  == Len(L)
           to == Min({k + K, n})
<1>1. n \in Nat /\ \A i \in 1..n : L[i] \in S
  OBVIOUS
<1>2. to \in Nat /\ to <= k + K /\ to <= n /\ (to = k + K \/ to = n)
  <2>1. \E m \in {k + K, n} : \A y \in {k + K, n} : m <= y
    BY <1>1
  <2> HIDE DEF n
  <2>2. to \in {k + K, n} /\ \A y \in {k + K, n} : to <= y
    BY <2>1 DEF Min
  <2> QED BY <1>1, <2>2
<1> HIDE DEF to
<1>3. /\ page \in Seq(S) /\ Len(page) = IF k + 1 <= to THEN to - (k + 1) + 1 ELSE 0
      /\ \A i \in 1..to - (k + 1) + 1 : page[i] = L[(k + 1) + i - 1]
  <2>1. \A i \in k + 1 .. to : L[i] \in S
    BY <1>1, <1>2
  <2>2. page = SubSeq(L, k + 1, to)
    BY DEF Slice, to
  <2>3. k + 1 \in Int /\ to \in Int
    BY <1>2
  <2>4. /\ SubSeq(L, k + 1, to) \in Seq(S)
        /\ Len(SubSeq(L, k + 1, to)) = IF k + 1 <= to THEN to - (k + 1) + 1 ELSE 0
        /\ \A i \in 1..to - (k + 1) + 1 : SubSeq(L, k + 1, to)[i] = L[(k + 1) + i - 1]
    BY <2>1, <2>3, SubSeqProperties
  <2> QED BY <2>2, <2>4
<1>4. Len(page) = IF k < to THEN to - k ELSE 0
  BY <1>2, <1>3
<1>5. ASSUME NEW i \in 1..Len(page) PROVE i <= K /\ k + i \in 1..n /\ page[i] = L[k + i]
  <2>1. i \in 1..to - (k + 1) + 1 /\ (k + 1) + i - 1 = k + i /\ k < to /\ i <= to - k
    BY <1>2, <1>4
  <2> QED BY <1>1, <1>2, <1>3, <2>1
<1>6. ASSUME NEW j \in k + 1 .. k + K, j <= n PROVE j - k \in 1..Len(page)
  BY <1>1, <1>2, <1>4, <1>6
<1> QED BY <1>3, <1>5, <1>6 DEF n

(* What is in one sequence after another, and when nothing is twice.       *)
LEMMA Joined ==
  ASSUME NEW T, NEW s \in Seq(T), NEW t \in Seq(T)
  PROVE  /\ s \o t \in Seq(T)
         /\ ToSet(s \o t) = ToSet(s) \cup ToSet(t)
         /\ IsInjective(s) /\ IsInjective(t) /\ ToSet(s) \cap ToSet(t) = {} => IsInjective(s \o t)
<1> DEFINE u == s \o t
           m == Len(s)
           n == Len(t)
<1>1. /\ m \in Nat /\ n \in Nat /\ DOMAIN s = 1..m /\ DOMAIN t = 1..n
      /\ u \in Seq(T) /\ DOMAIN u = 1..m + n
      /\ \A i \in 1..m : i \in 1..m + n /\ u[i] = s[i]
      /\ \A i \in 1..n : m + i \in 1..m + n /\ u[m + i] = t[i]
  OBVIOUS
<1> HIDE DEF u, m, n
<1>2. ASSUME NEW i \in 1..m + n
      PROVE  (i \in 1..m /\ u[i] = s[i]) \/ (i - m \in 1..n /\ u[i] = t[i - m])
  <2>1. CASE i \in 1..m
    BY <1>1, <2>1
  <2>2. CASE i \notin 1..m
    <3>1. i - m \in 1..n /\ m + (i - m) = i
      BY <1>1, <2>2
    <3> QED BY <1>1, <3>1
  <2> QED BY <2>1, <2>2
<1>3. ToSet(u) \subseteq ToSet(s) \cup ToSet(t)
  <2>1. \A i \in 1..m + n : u[i] \in ToSet(s) \cup ToSet(t)
    BY <1>1, <1>2 DEF ToSet
  <2>2. ToSet(u) = {u[i] : i \in 1..m + n}
    BY <1>1 DEF ToSet
  <2> QED BY <2>1, <2>2
<1>4. ToSet(s) \subseteq ToSet(u) /\ ToSet(t) \subseteq ToSet(u)
  <2>1. \A i \in 1..m : s[i] \in ToSet(u)
    BY <1>1 DEF ToSet
  <2>2. \A i \in 1..n : t[i] \in ToSet(u)
    BY <1>1 DEF ToSet
  <2>3. ToSet(s) = {s[i] : i \in 1..m} /\ ToSet(t) = {t[i] : i \in 1..n}
    BY <1>1 DEF ToSet
  <2> QED BY <2>1, <2>2, <2>3
<1>5. ASSUME IsInjective(s), IsInjective(t), ToSet(s) \cap ToSet(t) = {},
             NEW i \in 1..m + n, NEW j \in 1..m + n, u[i] = u[j]
      PROVE  i = j
  <2>1. \A a \in 1..m : s[a] \in ToSet(s)
    BY <1>1 DEF ToSet
  <2>2. \A a \in 1..n : t[a] \in ToSet(t)
    BY <1>1 DEF ToSet
  <2>3. CASE i \in 1..m /\ u[i] = s[i]
    <3>1. j \in 1..m /\ u[j] = s[j]
      BY <1>2, <1>5, <2>1, <2>2, <2>3
    <3> QED BY <1>1, <1>5, <2>3, <3>1 DEF IsInjective
  <2>4. CASE i - m \in 1..n /\ u[i] = t[i - m]
    <3>1. j - m \in 1..n /\ u[j] = t[j - m]
      BY <1>2, <1>5, <2>1, <2>2, <2>4
    <3>2. i - m = j - m
      BY <1>1, <1>5, <2>4, <3>1 DEF IsInjective
    <3> QED BY <1>1, <3>2
  <2> QED BY <1>2, <2>3, <2>4
<1>6. IsInjective(s) /\ IsInjective(t) /\ ToSet(s) \cap ToSet(t) = {} => IsInjective(u)
  BY <1>1, <1>5 DEF IsInjective
<1> QED BY <1>1, <1>3, <1>4, <1>6 DEF u

(* The next K places are read.                                             *)
LEMMA ReadPage ==
  ASSUME NEW op \in {"prs", "comments"}, NEW S \in SUBSET Nat, IsFiniteSet(S),
         NEW L, Lists(op, S, L), NEW k \in Nat, NEW K \in Nat,
         NEW from, NEW left, NEW found \in Seq(Nat), NEW came,
         Read(op, S, from, left, found, came, k), NEW page, page = Slice(L, k + 1, k + K)
  PROVE  /\ found \o page \in Seq(Nat)
         /\ Read(op, S, from, left, found \o page, came, k + K)
         /\ page = << >> /\ K # 0 => Cardinality(S) <= k
<1> DEFINE n    == Cardinality(S)
           more == found \o page
<1>1. n \in Nat /\ L \in Seq(S) /\ Len(L) = n /\ \A x \in S : \E i \in 1..n : L[i] = x
  BY FS_CardinalityType DEF Lists
<1>2. \A i \in 1..n : L[i] \in S /\ Rank(op, S, L[i]) = i
  BY RankIsPlace
<1>3. /\ page \in Seq(S)
      /\ \A i \in 1..Len(page) : i <= K /\ k + i \in 1..n /\ page[i] = L[k + i]
      /\ \A j \in k + 1 .. k + K : j <= n => j - k \in 1..Len(page)
  <2>1. /\ page \in Seq(S)
        /\ \A i \in 1..Len(page) : i <= K /\ k + i \in 1..Len(L) /\ page[i] = L[k + i]
        /\ \A j \in k + 1 .. k + K : j <= Len(L) => j - k \in 1..Len(page)
    <3>1. L \in Seq(S) /\ page = Slice(L, k + 1, k + K)
      BY <1>1
    <3> HIDE DEF n, more
    <3> QED BY <3>1, SliceIs
  <2> HIDE DEF n
  <2> QED BY <1>1, <2>1
<1> HIDE DEF n
<1>4. /\ DOMAIN page = 1..Len(page) /\ Len(page) \in Nat
      /\ \A i \in 1..Len(page) : page[i] \in S /\ Rank(op, S, page[i]) = k + i /\ i <= K
  BY <1>2, <1>3
<1>5. page \in Seq(Nat)
  <2>1. S \subseteq Nat /\ page \in Seq(S)
    BY <1>3
  <2> QED BY <2>1, SeqMonotonic
<1>6. /\ found \o page \in Seq(Nat) /\ ToSet(more) = ToSet(found) \cup ToSet(page)
      /\ IsInjective(found) /\ IsInjective(page) /\ ToSet(found) \cap ToSet(page) = {} => IsInjective(more)
  BY <1>5, Joined
<1>7. \A x : x \in ToSet(page) <=> \E i \in 1..Len(page) : page[i] = x
  BY <1>4 DEF ToSet
<1> HIDE DEF more
<1>8. ASSUME NEW x \in from \ left
      PROVE  /\ x \in S
             /\ x \in ToSet(more) \/ Rank(op, S, x) > k + K \/ \E y \in left : Ahead(op, y, x)
  <2>1. x \in S /\ (x \in ToSet(found) \/ Rank(op, S, x) > k \/ \E y \in left : Ahead(op, y, x))
    BY DEF Read
  <2>2. ASSUME Rank(op, S, x) > k, ~(Rank(op, S, x) > k + K) PROVE x \in ToSet(page)
    <3>1. PICK i \in 1..n : L[i] = x
      BY <1>1, <2>1
    <3>2. Rank(op, S, x) = i /\ i \in Nat /\ i <= n
      BY <1>1, <1>2, <3>1
    <3>3. i \in k + 1 .. k + K
      BY <2>2, <3>2
    <3>4. i - k \in 1..Len(page) /\ k + (i - k) = i
      BY <1>3, <3>2, <3>3
    <3>5. page[i - k] = x
      BY <1>3, <3>1, <3>4
    <3> QED BY <1>7, <3>4, <3>5
  <2> QED BY <1>6, <2>1, <2>2
<1>9. ASSUME ~came PROVE IsInjective(more) /\ \A x \in ToSet(more) \cap S : Rank(op, S, x) <= k + K
  <2>1. IsInjective(found) /\ \A x \in ToSet(found) \cap S : Rank(op, S, x) <= k
    BY <1>9 DEF Read
  <2>2. ASSUME NEW x \in ToSet(page) PROVE x \in S /\ Rank(op, S, x) \in k + 1 .. k + K
    <3>1. PICK i \in 1..Len(page) : page[i] = x
      BY <1>7
    <3>2. x \in S /\ Rank(op, S, x) = k + i /\ i <= K
      BY <1>4, <3>1
    <3> QED BY <3>2
  <2>3. ASSUME NEW x \in ToSet(more) \cap S PROVE Rank(op, S, x) <= k + K
    <3>1. CASE x \in ToSet(found)
      <4>1. Rank(op, S, x) <= k /\ Rank(op, S, x) \in Nat
        BY <2>1, <3>1, RankKept
      <4> QED BY <4>1
    <3>2. CASE x \in ToSet(page)
      BY <2>2, <3>2
    <3> QED BY <1>6, <3>1, <3>2
  <2>4. ToSet(found) \cap ToSet(page) = {}
    BY <2>1, <2>2
  <2>5. IsInjective(page)
    <3>1. ASSUME NEW i \in 1..Len(page), NEW j \in 1..Len(page), page[i] = page[j] PROVE i = j
      <4>1. k + i = k + j
        BY <1>4, <3>1
      <4> QED BY <4>1
    <3> QED BY <1>4, <3>1 DEF IsInjective
  <2> QED BY <1>6, <2>1, <2>3, <2>4, <2>5
<1>10. ASSUME page = << >>, K # 0 PROVE n <= k
  <2>1. k + 1 \in k + 1 .. k + K /\ ~(k + 1 - k \in 1..Len(page))
    BY <1>10
  <2> QED BY <1>1, <1>3, <2>1
<1> QED BY <1>6, <1>8, <1>9, <1>10 DEF more, n, Read

(* The listing a becomes b, the entries having been S and now being T.     *)
Follows(a, b, S, T, reach) ==
  /\ b.op = a.op /\ b.page = a.page /\ b.from = a.from /\ b.found = a.found
  /\ b.left = a.left \cup (S \ T)
  /\ b.came = (a.came \/ ~(T \subseteq S))
  /\ b.beyond = a.beyond \cup Past(a.op, T, reach)

(* The list changes while it is read.                                      *)
LEMMA ReadOn ==
  ASSUME NEW S \in SUBSET Nat, IsFiniteSet(S), NEW T \in SUBSET Nat, IsFiniteSet(T), NEW k \in Nat,
         NEW a, a.op \in {"prs", "comments"}, Read(a.op, S, a.from, a.left, a.found, a.came, k),
         NEW reach, NEW b, Follows(a, b, S, T, reach)
  PROVE  Read(b.op, T, b.from, b.left, b.found, b.came, k)
<1> DEFINE op    == a.op
           from  == a.from
           left  == a.left
           found == a.found
           came  == a.came
           gone  == b.left
<1>1. /\ b.op = op /\ b.from = from /\ b.found = found
      /\ gone = left \cup (S \ T) /\ b.came = (came \/ ~(T \subseteq S))
      /\ op \in {"prs", "comments"} /\ Read(op, S, from, left, found, came, k)
  BY DEF Follows
<1> HIDE DEF op, from, left, found, came, gone
<1>2. ASSUME NEW x \in from \ gone
      PROVE  /\ x \in T
             /\ x \in ToSet(found) \/ Rank(op, T, x) > k \/ \E y \in gone : Ahead(op, y, x)
  <2>1. x \in S /\ x \in T /\ x \in Nat
    BY <1>1 DEF Read
  <2>2. x \in ToSet(found) \/ Rank(op, S, x) > k \/ \E y \in left : Ahead(op, y, x)
    BY <1>1 DEF Read
  <2>3. ASSUME \A y \in S \ T : ~Ahead(op, y, x)
        PROVE  Rank(op, S, x) \in Nat /\ Rank(op, T, x) \in Nat /\ Rank(op, S, x) <= Rank(op, T, x)
    <3>1. \A y \in S : y = x \/ Ahead(op, y, x) => y \in T
      BY <2>1, <2>3
    <3> QED BY <1>1, <3>1, RankKept
  <2> QED BY <1>1, <2>1, <2>2, <2>3
<1>3. ASSUME ~came, T \subseteq S
      PROVE  IsInjective(found) /\ \A x \in ToSet(found) \cap T : Rank(op, T, x) <= k
  <2>1. IsInjective(found) /\ \A x \in ToSet(found) \cap S : Rank(op, S, x) <= k
    BY <1>1, <1>3 DEF Read
  <2>2. ASSUME NEW x \in ToSet(found) \cap T PROVE Rank(op, T, x) <= k
    <3>1. Rank(op, S, x) <= k
      BY <1>3, <2>1
    <3>2. Rank(op, T, x) \in Nat /\ Rank(op, S, x) \in Nat /\ Rank(op, T, x) <= Rank(op, S, x)
      BY <1>1, <1>3, RankKept
    <3> QED BY <3>1, <3>2
  <2> QED BY <2>1, <2>2
<1> QED BY <1>1, <1>2, <1>3 DEF Read, op, from, found, came, gone

(* The list was read to its end.                                           *)
LEMMA ReadAll ==
  ASSUME NEW op \in {"prs", "comments"}, NEW S \in SUBSET Nat, IsFiniteSet(S), NEW k \in Nat,
         Cardinality(S) <= k, NEW from, NEW left, NEW found, NEW came,
         Read(op, S, from, left, found, came, k)
  PROVE  /\ \A x \in from \ left : x \in ToSet(found) \/ \E y \in left : Ahead(op, y, x)
         /\ came \/ IsInjective(found)
<1>1. ASSUME NEW x \in S PROVE ~(Rank(op, S, x) > k)
  <2> DEFINE Up == {y \in S : y = x \/ Ahead(op, y, x)}
  <2>1. Cardinality(Up) <= Cardinality(S) /\ Cardinality(Up) \in Nat /\ Cardinality(S) \in Nat
    <3>1. Up \subseteq S /\ IsFiniteSet(Up)
      BY FS_Subset
    <3> HIDE DEF Up
    <3> QED BY <3>1, FS_Subset, FS_CardinalityType
  <2> QED BY <2>1 DEF Rank
<1> QED BY <1>1 DEF Read

-----------------------------------------------------------------------------
(* How a step changes a listing. *)

(* Pages after one another.                                                *)
LEMMA PagesAdd ==
  ASSUME NEW k \in Nat \ {0}, NEW K \in Nat
  PROVE  (k - 1) * K \in Nat /\ (k - 1) * K + K = k * K /\ ((k + 1) - 1) * K = k * K
<1>1. (k - 1) * K + K = k * K
  OBVIOUS
<1>2. (k - 1) * K \in Nat
  <2>1. k - 1 \in Nat
    OBVIOUS
  <2> QED BY <2>1
<1>3. (k + 1) - 1 = k
  OBVIOUS
<1> QED BY <1>1, <1>2, <1>3

(* What the adapters read at most.                                         *)
LEMMA ReachIs ==
  ASSUME HostTypes, NEW op \in {"prs", "comments"}
  PROVE  /\ Reach(op) \in Nat
         /\ provider = "github" => Reach(op) = MaxPages * PageSize
<1>1. provider = "github" => Reach(op) = MaxPages * PageSize
  BY DEF Reach
<1>2. provider # "github" => Reach(op) \in {PageSize, MaxComments}
  BY DEF Reach, HostTypes
<1>3. PageSize \in Nat /\ MaxComments \in Nat /\ MaxPages \in Nat \ {0}
  BY CodeHostAssumption, AdaptersAssumption
<1>4. MaxPages * PageSize \in Nat
  BY <1>3
<1> QED BY <1>1, <1>2, <1>3, <1>4

(* A listing begins with nothing read.                                     *)
LEMMA Begins ==
  ASSUME NEW p, NEW op \in {"prs", "comments"}, NEW S \in SUBSET Nat, IsFiniteSet(S), NEW reach,
         NEW a, a = [Idle EXCEPT !.op = op, !.page = 1, !.from = S, !.beyond = Past(op, S, reach)]
  PROVE  a.op = op /\ Under(p, S, reach, a)
<1>1. /\ a.op = op /\ a.page = 1 /\ a.from = S /\ a.found = << >> /\ a.left = {} /\ a.came = FALSE
      /\ a.beyond = Past(op, S, reach)
  BY Zenon DEF Idle
<1>2. MaxPages \in Nat \ {0} /\ PageSize \in Nat
  BY CodeHostAssumption, AdaptersAssumption
<1>3. (1 - 1) * PageSize = 0
  BY <1>2
<1>4. ASSUME NEW x \in S PROVE Rank(op, S, x) > 0
  <2> DEFINE Up == {y \in S : y = x \/ Ahead(op, y, x)}
  <2>1. x \in Up /\ Up \subseteq S
    OBVIOUS
  <2> HIDE DEF Up
  <2>2. IsFiniteSet(Up) /\ Up # {}
    BY <2>1, FS_Subset
  <2>3. Cardinality(Up) \in Nat /\ Cardinality(Up) # 0
    BY <2>2, FS_CardinalityType, FS_EmptySet
  <2> QED BY <2>3 DEF Rank, Up
<1>5. IsInjective(<< >>) /\ ToSet(<< >>) = {} /\ << >> \in Seq(Nat)
  BY DEF IsInjective, ToSet
<1>6. Read(op, S, S, {}, << >>, FALSE, 0)
  BY <1>4, <1>5 DEF Read
<1>7. Read(a.op, S, a.from, a.left, a.found, a.came, (a.page - 1) * PageSize)
  BY <1>1, <1>3, <1>6
<1>8. \A x \in S : Rank(a.op, S, x) > reach => x \in a.beyond
  BY <1>1 DEF Past
<1>9. /\ a.page \in Nat \ {0} /\ a.page <= MaxPages /\ a.page = 1
      /\ a.found \in Seq(Nat) /\ a.came \in BOOLEAN
  <2>1. a.page \in Nat \ {0} /\ a.page <= MaxPages /\ a.page = 1
    BY <1>1, <1>2
  <2>2. a.found \in Seq(Nat)
    BY <1>1, <1>5
  <2>3. a.came \in BOOLEAN
    BY <1>1
  <2> QED BY <2>1, <2>2, <2>3
<1> QED BY <1>1, <1>7, <1>8, <1>9 DEF Under

(* What was read is read, and what is to be found is to be found.          *)
LEMMA GoesOn ==
  ASSUME NEW p, NEW reach, NEW S \in SUBSET Nat, IsFiniteSet(S), NEW T \in SUBSET Nat, IsFiniteSet(T),
         NEW a, a.op \in {"prs", "comments"}, Under(p, S, reach, a), NEW b, Follows(a, b, S, T, reach)
  PROVE  b.op = a.op /\ Under(p, T, reach, b)
<1> DEFINE k == (a.page - 1) * PageSize
<1>1. /\ b.op = a.op /\ b.page = a.page /\ b.from = a.from /\ b.found = a.found
      /\ b.left = a.left \cup (S \ T)
      /\ b.came = (a.came \/ ~(T \subseteq S))
      /\ b.beyond = a.beyond \cup Past(a.op, T, reach)
  BY DEF Follows
<1>2. /\ a.page \in Nat \ {0} /\ a.found \in Seq(Nat) /\ a.came \in BOOLEAN
      /\ p = "github" => a.page <= MaxPages
      /\ p = "ado" => a.page = 1
      /\ Read(a.op, S, a.from, a.left, a.found, a.came, k)
  BY DEF Under
<1>3. k \in Nat
  BY <1>2, PagesAdd, CodeHostAssumption
<1> HIDE DEF k
<1>4. Read(b.op, T, b.from, b.left, b.found, b.came, k)
  BY <1>2, <1>3, ReadOn
<1>5. Read(b.op, T, b.from, b.left, b.found, b.came, (b.page - 1) * PageSize)
  BY <1>1, <1>4 DEF k
<1>6. \A x \in T : Rank(b.op, T, x) > reach => x \in b.beyond
  BY <1>1 DEF Past
<1>7. b.came \in BOOLEAN
  BY <1>1
<1> QED BY <1>1, <1>2, <1>5, <1>6, <1>7 DEF Under

(* An answer comes.                                                        *)
LEMMA Answered ==
  ASSUME Types, NEW c \in Callers, NEW op, call[c].op = op, NextPage(c),
         Under(provider, Entries(op), Reach(op), call[c])
  PROVE  \/ call'[c].op = op /\ Under(provider, Entries(op), Reach(op), call'[c])
         \/ call'[c].op = ListingOver(op) /\ Exact(call'[c])
<1> DEFINE a     == call[c]
           S     == Entries(op)
           list  == Listing(op)
           reach == Reach(op)
           page  == IF provider = "ado" THEN Slice(list, 1, reach) ELSE Page(list, a.page)
           over  == provider = "ado" \/ page = << >> \/ Finished(a.page)
           found == a.found \o page
           next  == a.page + 1
           to    == IF over THEN ListingOver(op) ELSE op
           k     == (a.page - 1) * PageSize
           K     == IF provider = "ado" THEN reach ELSE PageSize
<1>1. /\ HostTypes /\ op \in {"prs", "comments"} /\ call \in [Callers -> Calls(Kept(call))]
      /\ a \in Calls(Kept(call)) /\ provider \in {"github", "ado"}
  BY DEF Types, HostTypes, CallTypes, NextPage
<1>2. call' = [call EXCEPT ![c] = [a EXCEPT !.found = found, !.page = next, !.op = to]]
  BY Zenon DEF NextPage
<1> HIDE DEF found, next, to
<1>3. /\ call'[c].op = to /\ call'[c].page = next /\ call'[c].found = found
      /\ call'[c].from = a.from /\ call'[c].left = a.left /\ call'[c].came = a.came
      /\ call'[c].beyond = a.beyond
  BY <1>1, <1>2 DEF Calls
<1>4. /\ a.page \in Nat \ {0} /\ a.found \in Seq(Nat) /\ a.came \in BOOLEAN
      /\ provider = "github" => a.page <= MaxPages
      /\ provider = "ado" => a.page = 1
      /\ \A x \in S : Rank(op, S, x) > reach => x \in a.beyond
      /\ Read(op, S, a.from, a.left, a.found, a.came, k)
  BY DEF Under
<1>5. S \in SUBSET Nat /\ IsFiniteSet(S) /\ Lists(op, S, list) /\ Cardinality(S) \in Nat
  BY <1>1, ListingIs, FS_CardinalityType
<1>6. reach \in Nat /\ PageSize \in Nat \ {0} /\ MaxPages \in Nat
  BY <1>1, ReachIs, CodeHostAssumption, AdaptersAssumption
<1>7. k \in Nat /\ k + PageSize = a.page * PageSize /\ (next - 1) * PageSize = a.page * PageSize
  BY <1>4, <1>6, PagesAdd DEF next
<1>8. K \in Nat /\ page = Slice(list, k + 1, k + K)
  <2>1. CASE provider = "ado"
    <3>1. k = 0
      BY <1>4, <1>6, <2>1
    <3>2. k + 1 = 1 /\ k + K = reach
      BY <1>6, <2>1, <3>1
    <3> QED BY <1>6, <2>1, <3>2
  <2>2. CASE provider # "ado"
    <3> HIDE DEF k, list
    <3> QED BY <1>6, <1>7, <2>2 DEF Page, k
  <2> QED BY <2>1, <2>2
<1> HIDE DEF k, K, page, list, S, reach
<1>9. /\ found \in Seq(Nat)
      /\ Read(op, S, a.from, a.left, found, a.came, k + K)
      /\ page = << >> /\ K # 0 => Cardinality(S) <= k
  BY <1>1, <1>4, <1>5, <1>7, <1>8, ReadPage DEF found
<1>10. CASE ~over
  <2>1. to = op /\ provider = "github" /\ ~Finished(a.page)
    BY <1>1, <1>10 DEF to
  <2>2. next \in Nat \ {0} /\ next <= MaxPages
    BY <1>4, <1>6, <2>1 DEF next, Finished, LastPage
  <2>3. k + K = (next - 1) * PageSize
    BY <1>7, <2>1 DEF K
  <2>4. Read(to, S, a.from, a.left, found, a.came, (next - 1) * PageSize)
    BY <1>9, <2>1, <2>3
  <2>5. Under(provider, S, reach, call'[c])
    BY <1>3, <1>4, <1>9, <2>1, <2>2, <2>4 DEF Under
  <2> QED BY <1>3, <2>1, <2>5 DEF S, reach
<1>11. CASE over
  <2>1. to = ListingOver(op)
    BY <1>11 DEF to
  <2>2. Cardinality(S) <= k + K \/ k + K >= reach
    <3>1. CASE provider = "ado"
      BY <1>6, <1>7, <3>1 DEF K
    <3>2. CASE provider = "github" /\ page = << >>
      <4>1. K # 0
        BY <1>6, <3>2 DEF K
      <4> QED BY <1>5, <1>7, <1>8, <1>9, <3>2, <4>1
    <3>3. CASE provider = "github" /\ Finished(a.page)
      <4>1. a.page = MaxPages
        BY <1>4, <1>6, <3>3 DEF Finished, LastPage
      <4>2. reach = MaxPages * PageSize
        BY <1>1, <3>3, ReachIs DEF reach
      <4>3. k + K = reach
        BY <1>7, <3>3, <4>1, <4>2 DEF K
      <4> QED BY <1>6, <4>3
    <3> QED BY <1>1, <1>11, <3>1, <3>2, <3>3
  <2>3. \A x \in a.from \ a.left :
          x \in ToSet(found) \/ x \in a.beyond \/ \E y \in a.left : Ahead(op, y, x)
    <3>1. k + K \in Nat
      BY <1>7, <1>8
    <3>2. CASE Cardinality(S) <= k + K
      BY <1>1, <1>5, <1>9, <3>1, <3>2, ReadAll
    <3>3. CASE k + K >= reach
      <4> SUFFICES ASSUME NEW x \in a.from \ a.left, Rank(op, S, x) > k + K, x \in S
                   PROVE  x \in a.beyond
        BY <1>9 DEF Read
      <4>1. Rank(op, S, x) \in Nat
        BY <1>1, <1>5, RankKept
      <4> QED BY <1>4, <1>6, <3>1, <3>3, <4>1
    <3> QED BY <2>2, <3>2, <3>3
  <2>4. a.came \/ IsInjective(found)
    BY <1>9 DEF Read
  <2>5. \A x, y : Ahead(op, y, x) <=> Before(to, y, x)
    BY <2>1 DEF Ahead
  <2>6. Exact(call'[c])
    BY <1>3, <2>3, <2>4, <2>5 DEF Exact
  <2> QED BY <1>3, <2>1, <2>6
<1> QED BY <1>10, <1>11

(* What observing a step makes of a listing under way.                     *)
LEMMA ObservedIs ==
  ASSUME HostTypes, provider' = provider, NEW ps, ps = prs', NEW cs, cs = comments',
         NEW calls, call' = Observed(calls, ps, cs),
         NEW c \in Callers, NEW X, NEW a \in Calls(X), calls[c] = a, NEW op \in {"prs", "comments"}, a.op = op
  PROVE  Follows(a, call'[c], Entries(op), Entries(op)', Reach(op))
<1> DEFINE now(q) == IF q = "prs" THEN {n \in DOMAIN ps : ps[n].open}
                                  ELSE {i \in DOMAIN cs : Shown(cs[i])}
           seen(f, q, b) == [f EXCEPT !.left = f.left \cup (Listed(q) \ b),
                             !.came = f.came \/ ~(b \subseteq Listed(q)),
                             !.beyond = f.beyond \cup BeyondReach(q, b)]
<1>1. call'[c] = IF calls[c].op \notin {"prs", "comments"} THEN calls[c]
                ELSE seen(calls[c], calls[c].op, now(calls[c].op))
  BY Zenon DEF Observed
<1>2. now(op) = Entries(op)'
  BY DEF Entries, Shown
<1>3. Listed(op) = Entries(op)
  BY ListingIs
<1> HIDE DEF now, seen
<1>4. call'[c] = seen(a, op, Entries(op)')
  BY <1>1, <1>2
<1> DEFINE left == a.left \cup (Entries(op) \ Entries(op)')
           came == a.came \/ ~(Entries(op)' \subseteq Entries(op))
           off  == a.beyond \cup BeyondReach(op, Entries(op)')
<1>5. call'[c] = [a EXCEPT !.left = left, !.came = came, !.beyond = off]
  BY <1>3, <1>4 DEF seen
<1> HIDE DEF left, came, off
<1>6. /\ call'[c].op = a.op /\ call'[c].page = a.page /\ call'[c].from = a.from
      /\ call'[c].found = a.found /\ call'[c].left = left /\ call'[c].came = came
      /\ call'[c].beyond = off
  BY <1>5 DEF Calls
<1>7. BeyondReach(op, Entries(op)') = Past(op, Entries(op)', Reach(op))
  BY Zenon DEF BeyondReach, Past, Rank, Ahead
<1> QED BY <1>6, <1>7 DEF Follows, left, came, off

(* A listing goes on, or is over, and stays exact.                         *)
LEMMA ListingsStep == Types /\ ListingsExact /\ [Next]_vars => ListingsExact'
<1> SUFFICES ASSUME Types, ListingsExact, [Next]_vars, NEW d \in Callers
             PROVE  ListingAt(d)'
  BY DEF ListingsExact
<1> DEFINE Kind  == {"prs", "comments"}
           Over  == {"listed_prs", "listed_comments"}
           Goal  == ListingAt(d)'
<1>1. /\ HostTypes /\ HostTypes' /\ provider' = provider
      /\ call \in [Callers -> Calls(Kept(call))] /\ call[d] \in Calls(Kept(call))
  BY TypesStep, HostMoves DEF Types, CallTypes, HostMove
<1>2. ASSUME NEW op \in Kind
      PROVE  /\ Entries(op) \in SUBSET Nat /\ IsFiniteSet(Entries(op)) /\ Reach(op)' = Reach(op)
             /\ Entries(op)' \in SUBSET Nat /\ IsFiniteSet(Entries(op)')
  <2>1. Entries(op) \in SUBSET Nat /\ IsFiniteSet(Entries(op))
    BY <1>1, ListingIs
  <2>2. (Entries(op) \in SUBSET Nat /\ IsFiniteSet(Entries(op)))'
    BY <1>1, ListingIs, PTL
  <2>3. Reach(op)' = Reach(op)
    BY <1>1 DEF Reach
  <2> QED BY <2>1, <2>2, <2>3
<1>3. ASSUME NEW op \in Kind, call[d].op = op PROVE Under(provider, Entries(op), Reach(op), call[d])
  BY <1>3 DEF ListingsExact, ListingAt, Exactly
<1>4. ASSUME call'[d].op \notin Kind \cup Over PROVE Goal
  BY <1>4 DEF ListingAt, Exactly
<1>5. ASSUME NEW op \in Kind, call'[d].op = op, Under(provider, Entries(op)', Reach(op), call'[d])
      PROVE  Goal
  BY <1>1, <1>2, <1>5 DEF ListingAt, Exactly
<1>6. ASSUME call'[d].op \in Over, Exact(call'[d]) PROVE Goal
  BY <1>6 DEF ListingAt, Exactly
<1>7. ASSUME call'[d] = call[d], call[d].op \in Over PROVE Goal
  <2>1. Exact(call[d])
    BY <1>7 DEF ListingsExact, ListingAt, Exactly
  <2> QED BY <1>6, <1>7, <2>1
<1>8. ASSUME call'[d] = call[d], UNCHANGED host PROVE Goal
  <2>1. ASSUME NEW op \in Kind, call[d].op = op PROVE Goal
    <3>1. Entries(op)' = Entries(op)
      BY <1>8 DEF host, Entries, Shown
    <3> QED BY <1>3, <1>5, <1>8, <2>1, <3>1
  <2> QED BY <1>4, <1>7, <1>8, <2>1
<1>9. ASSUME NEW ps, ps = prs', NEW cs, cs = comments',
             NEW calls, call' = Observed(calls, ps, cs), calls[d] = call[d]
      PROVE  Goal
  <2>1. ASSUME NEW op \in Kind, call[d].op = op PROVE Goal
    <3>1. /\ call[d] \in Calls(Kept(call)) /\ calls[d] = call[d]
          /\ Under(provider, Entries(op), Reach(op), call[d])
      BY <1>1, <1>3, <1>9, <2>1
    <3>2. Follows(call[d], call'[d], Entries(op), Entries(op)', Reach(op))
      BY <1>1, <1>9, <2>1, <3>1, ObservedIs
    <3>3. call'[d].op = op /\ Under(provider, Entries(op)', Reach(op), call'[d])
      BY <1>2, <2>1, <3>1, <3>2, GoesOn
    <3> QED BY <1>5, <3>3
  <2>2. ASSUME call[d].op \notin Kind PROVE call'[d] = call[d]
    BY <1>9, <2>2, Zenon DEF Observed
  <2> QED BY <1>4, <1>7, <2>1, <2>2
<1>10. ASSUME NEW c \in Callers, NEW a, call' = [call EXCEPT ![c] = a], UNCHANGED host,
              a.op \notin Kind \cup Over \/ c # d
       PROVE  Goal
  BY <1>1, <1>4, <1>8, <1>10
<1>11. ASSUME NEW c \in Callers, NEW a, NEW ps, ps = prs', NEW cs, cs = comments',
              call' = Observed([call EXCEPT ![c] = a], ps, cs),
              a.op \notin Kind \cup Over
       PROVE  Goal
  <2> DEFINE f == [call EXCEPT ![c] = a]
  <2>1. CASE c # d
    <3>1. f[d] = call[d]
      BY <1>1, <2>1
    <3> HIDE DEF f
    <3> QED BY <1>9, <1>11, <3>1 DEF f
  <2>2. CASE c = d
    <3>1. f[d] = a
      BY <1>1, <2>2
    <3>2. call' = Observed(f, ps, cs)
      BY <1>11
    <3> HIDE DEF f
    <3>3. call'[d] = f[d]
      BY <1>11, <3>1, <3>2, Zenon DEF Observed
    <3> QED BY <1>4, <1>11, <3>1, <3>3
  <2> QED BY <2>1, <2>2
<1>12. Idle.op = "idle"
  BY IdleCall
<1>13. ASSUME NEW c \in Callers, CallerStep(c) PROVE Goal
  <2>1. ASSUME NEW op \in Kind, BeginListing(c, op) PROVE Goal
    <3> DEFINE off == Past(op, Entries(op), Reach(op))
               a   == [Idle EXCEPT !.op = op, !.page = 1, !.from = Entries(op), !.beyond = off]
    <3>1. call' = [call EXCEPT ![c] = [Idle EXCEPT !.op = op, !.page = 1, !.from = Listed(op),
                                         !.beyond = BeyondReach(op, Listed(op))]]
          /\ UNCHANGED host
      BY <2>1, Zenon DEF BeginListing
    <3>2. Listed(op) = Entries(op)
      BY <1>1, ListingIs
    <3>3. BeyondReach(op, Entries(op)) = off
      BY Zenon DEF BeyondReach, Past, Rank, Ahead
    <3>4. a.op = op /\ Under(provider, Entries(op), Reach(op), a)
      BY <1>2, Begins
    <3> HIDE DEF off
    <3>5. call' = [call EXCEPT ![c] = a]
      BY <3>1, <3>2, <3>3, Zenon
    <3>6. Entries(op)' = Entries(op)
      BY <3>1 DEF host, Entries, Shown
    <3> HIDE DEF a
    <3>7. CASE c = d
      <4>1. call'[d] = a
        BY <1>1, <3>5, <3>7
      <4> QED BY <1>5, <3>4, <3>6, <4>1
    <3> QED BY <1>10, <3>1, <3>5, <3>7
  <2>2. CASE NextPage(c)
    <3>1. UNCHANGED host /\ call[c].op \in Kind /\ \E a : call' = [call EXCEPT ![c] = a]
      BY <2>2, Zenon DEF NextPage
    <3>2. CASE c = d
      <4> PICK op \in Kind : call[d].op = op
        BY <3>1, <3>2
      <4>1. Under(provider, Entries(op), Reach(op), call[d])
        BY <1>3
      <4>2. \/ call'[d].op = op /\ Under(provider, Entries(op), Reach(op), call'[d])
            \/ call'[d].op = ListingOver(op) /\ Exact(call'[d])
        BY <2>2, <3>2, <4>1, Answered
      <4>3. Entries(op)' = Entries(op)
        BY <3>1 DEF host, Entries, Shown
      <4>4. ListingOver(op) \in Over
        BY DEF ListingOver
      <4> QED BY <1>5, <1>6, <4>1, <4>2, <4>3, <4>4
    <3> QED BY <1>10, <3>1, <3>2
  <2>3. CASE Take(c)
    BY <1>10, <1>12, <2>3 DEF Take
  <2>4. ASSUME NEW r \in Reviews, BeginReview(c, r) PROVE Goal
    <3> DEFINE a == [Idle EXCEPT !.op = "review", !.review = r]
    <3>1. call' = [call EXCEPT ![c] = a] /\ UNCHANGED host
      BY <2>4, Zenon DEF BeginReview
    <3>2. a.op = "review"
      BY DEF Idle
    <3> HIDE DEF a
    <3> QED BY <1>10, <3>1, <3>2
  <2>5. CASE PostPart(c)
    <3> DEFINE b == call[c]
               a == IF LastPart(b.part) THEN Idle ELSE [b EXCEPT !.part = b.part + 1]
    <3>1. call' = Observed([call EXCEPT ![c] = a], prs', comments') /\ b.op = "review"
      BY <2>5, Zenon DEF PostPart
    <3>2. a.op \in {"idle", "review"}
      <4>1. b \in Calls(Kept(call))
        BY <1>1
      <4> QED BY <1>12, <3>1, <4>1 DEF Calls
    <3> HIDE DEF a
    <3> QED BY <1>11, <3>1, <3>2
  <2>6. CASE PostComment(c)
    <3>1. call' = Observed(call, prs', comments')
      BY <2>6 DEF PostComment
    <3> QED BY <1>9, <3>1
  <2>7. CASE Fail(c)
    <3>1. call' = Observed([call EXCEPT ![c] = Idle], prs', comments')
      BY <2>7 DEF Fail
    <3> QED BY <1>11, <1>12, <3>1
  <2> QED
    BY <1>13, <2>1, <2>2, <2>3, <2>4, <2>5, <2>6, <2>7 DEF CallerStep
<1>14. CASE OthersEdit
  BY <1>9, <1>14 DEF OthersEdit, Edited
<1>15. ASSUME NEW r \in Runs, RunStep(r) PROVE Goal
  <2>1. UNCHANGED << host, call >> \/ call' = Observed(call, prs', comments')
    BY <1>15 DEF RunStep, Apply, GetRepo, HeadSha, GetBranch, GetFile, ListPrs, Write, CreateRepo,
                 CreateBranch, PutFile, PatchBody, CreatePr, Delete, Writes, WriteLock, TearLock, Verify,
                 ListComments, SweepDone, Stop, LoseAnswer, Nothing, adapters
  <2> QED BY <1>8, <1>9, <2>1
<1>16. CASE UNCHANGED vars
  BY <1>8, <1>16 DEF vars, adapters
<1> QED
  BY <1>13, <1>14, <1>15, <1>16 DEF Next

-----------------------------------------------------------------------------
(* The theorems. *)

(* The inductive invariant.                                                *)
HostInv ==
  /\ Types /\ OneOpen /\ PartsPosted
  /\ \A r \in Runs : Progress(r) /\ Sweeping(r)

(* It holds of a host with nothing on it.                                  *)
LEMMA HostInit == Init => HostInv /\ AppliedIsVerified /\ VoteHasReasons
<1> SUFFICES ASSUME Init PROVE HostInv /\ AppliedIsVerified /\ VoteHasReasons
  OBVIOUS
<1>1. /\ provider \in {"github", "ado"} /\ prs = << >> /\ comments = << >>
      /\ repo = [exists |-> FALSE, branch |-> FALSE, file |-> "none"]
      /\ call = [c \in Callers |-> Idle] /\ tool = [r \in Runs |-> Fresh]
      /\ lock = 0 /\ torn = FALSE /\ applied = FALSE
  BY DEF Init
<1>2. HostTypes /\ Numbers = {}
  BY <1>1 DEF HostTypes, Repositories, Files, Numbers
<1>3. CallTypes
  <2>1. call \in [Callers -> Calls({0, << >>, {}, FALSE})]
    BY <1>1, IdleCall
  <2>2. \A c \in Callers : call[c].op = "idle"
    BY <1>1, IdleCall
  <2> QED BY <2>1, <2>2, KeptAll DEF CallTypes
<1>4. Fresh \in Invocations /\ Fresh.pc = "ready" /\ ~Fresh.quiet
  BY DEF Fresh, Invocations, Pcs
<1>5. ToolTypes /\ \A r \in Runs : tool[r].pc = "ready" /\ ~tool[r].quiet
  BY <1>1, <1>4 DEF ToolTypes
<1>6. OneOpen /\ VoteHasReasons /\ AppliedIsVerified
  BY <1>1, <1>2 DEF OneOpen, Found, VoteHasReasons, AppliedIsVerified
<1>7. PartsPosted
  BY <1>1, IdleCall DEF PartsPosted
<1>8. \A r \in Runs : Progress(r) /\ Sweeping(r)
  BY <1>5 DEF Progress, Sweeping
<1> QED
  BY <1>2, <1>3, <1>5, <1>6, <1>7, <1>8 DEF HostInv, Types

(* The host and its clients have their types, at most one fixture pull     *)
(* request is open, and every review, apply and sweep under way has done   *)
(* what it must have done by now.                                          *)
THEOREM HostInvariant == Spec => []HostInv
<1>1. HostInv /\ [Next]_vars => HostInv'
  <2> SUFFICES ASSUME HostInv, [Next]_vars PROVE HostInv'
    OBVIOUS
  <2>1. Types /\ OneOpen /\ PartsPosted /\ (\A r \in Runs : Progress(r)) /\ (\A r \in Runs : Sweeping(r))
    BY DEF HostInv
  <2>2. Types' /\ OneOpen' /\ PartsPosted'
    BY <2>1, TypesStep, OneOpenStep, PartsStep
  <2>3. (\A r \in Runs : Progress(r))'
    BY <2>1, ProgressStep
  <2>4. (\A r \in Runs : Sweeping(r))'
    BY <2>1, SweepingStep
  <2> QED BY <2>2, <2>3, <2>4 DEF HostInv
<1> QED
  BY <1>1, HostInit, PTL DEF Spec

(* A vote is on a pull request only with all its line comments.            *)
THEOREM VotesHaveReasons == Spec => []VoteHasReasons
<1>1. HostInv /\ VoteHasReasons /\ [Next]_vars => VoteHasReasons'
  BY VoteStep DEF HostInv
<1> QED
  BY <1>1, HostInit, HostInvariant, PTL DEF Spec

(* A listing that is over has every entry that was listed all the time and *)
(* at places the adapter reads, unless one before it left, and each entry  *)
(* once if nothing came in.                                                *)
THEOREM ListingsAreExact == Spec => []ListingExact
<1>1. Init => ListingsExact
  <2> SUFFICES ASSUME Init, NEW c \in Callers PROVE call[c].op = "idle"
    BY DEF ListingsExact, ListingAt, Exactly
  <2> QED BY IdleCall DEF Init
<1>2. HostInv /\ ListingsExact /\ [Next]_vars => ListingsExact'
  BY ListingsStep DEF HostInv
<1>3. ListingsExact => ListingExact
  BY DEF ListingsExact, ListingAt, Exactly, Exact, ListingExact
<1> QED
  BY <1>1, <1>2, <1>3, HostInvariant, PTL DEF Spec

(* After an apply that succeeded the fixture is what the manifest says and *)
(* verify says so, until somebody edits it.                                *)
THEOREM ApplyIsVerified == Spec => []AppliedIsVerified
<1>1. HostInv /\ AppliedIsVerified /\ [Next]_vars => AppliedIsVerified'
  BY AppliedStep DEF HostInv
<1> QED
  BY <1>1, HostInit, HostInvariant, PTL DEF Spec

(* An apply that found the fixture as the manifest says writes nothing.    *)
THEOREM CleanApplyIsIdle == Spec => []CleanApplyWritesNothing
<1>1. HostInv => CleanApplyWritesNothing
  BY DEF HostInv, Progress, CleanApplyWritesNothing
<1> QED
  BY <1>1, HostInvariant, PTL

(* A sweep that succeeded deleted every stray comment it listed.           *)
THEOREM SweepSkipsNothing == Spec => []SweepComplete
<1>1. HostInv => SweepComplete
  BY DEF HostInv, Sweeping, SweepComplete
<1> QED
  BY <1>1, HostInvariant, PTL

=============================================================================
