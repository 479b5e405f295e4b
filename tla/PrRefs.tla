------------------------------- MODULE PrRefs -------------------------------
(***************************************************************************)
(* How pull requests are named: host ids                                   *)
(* (crates/devdev-integrations/src/host.rs), PrRef::parse and its Display  *)
(* (crates/devdev-tasks/src/pr_ref.rs), and the reference task/add takes   *)
(* from a description (dispatch.rs).                                       *)
(*                                                                         *)
(* A host is the sequence of its labels, in lower case; a path is the      *)
(* sequence of its segments, none of them empty.  Text is a URL, a word    *)
(* "path#number" whose number is digits, or another word.  What may fail   *)
(* returns a set, which is empty when it does.                             *)
(***************************************************************************)
LOCAL INSTANCE Naturals
LOCAL INSTANCE Sequences

CONSTANT Numbers   (* the texts that parse as a positive number            *)

Url(host, path)     == [form |-> "url", host |-> host, path |-> path]
Short(path, number) == [form |-> "short", path |-> path, number |-> number]

(* RepoHostId; api_base follows from the kind and the host.                *)
HostId(kind, host) == [kind |-> kind, host |-> host]
GithubCom   == HostId("github", << "github", "com" >>)
Ghe(host)   == HostId("github", host)
AzureDevOps == HostId("ado", << "dev", "azure", "com" >>)

(* The key a host has in the ledger.                                       *)
HostKey(id) == << id.kind, id.host >>

IsGithubCom(host) == host \in {<< "github", "com" >>, << "www", "github", "com" >>}
IsLegacyAdo(host) ==
  Len(host) > 2 /\ SubSeq(host, Len(host) - 1, Len(host)) = << "visualstudio", "com" >>

ClassifyHost(host) ==
  IF IsGithubCom(host) THEN {"github"}
  ELSE IF host = AzureDevOps.host \/ IsLegacyAdo(host) THEN {"ado"}
  ELSE IF Len(host) > 1 /\ Head(host) \in {"ghe", "github"} THEN {"github"}
  ELSE {}

FromBrowseHost(host) ==
  {CASE kind = "ado"      -> AzureDevOps
     [] IsGithubCom(host) -> GithubCom
     [] OTHER             -> Ghe(host) : kind \in ClassifyHost(host)}

-----------------------------------------------------------------------------
(* A PrRef.  On Azure DevOps the owner is the organization and the project.*)
Ref(id, owner, repo, number) == [host |-> id, owner |-> owner, repo |-> repo, number |-> number]

If(ok, ref) == {r \in {ref} : ok}

(* owner/repo#number, cut at the first slash: always github.com.           *)
ParseShorthand(path, number) ==
  IF Len(path) < 2 THEN {}
  ELSE If(number \in Numbers, Ref(GithubCom, << Head(path) >>, Tail(path), number))

(* owner/repo/pull/number, and whatever follows.                           *)
ParseGithubPath(id, path) ==
  IF Len(path) < 4 THEN {}
  ELSE If(path[3] = "pull" /\ path[4] \in Numbers,
          Ref(id, << path[1] >>, << path[2] >>, path[4]))

AdoFinalise(id, org, project, repo, number) ==
  If(number \in Numbers, Ref(id, << org, project >>, << repo >>, number))

(* org/project/_git/repo/pullrequest/number, or without the organization   *)
(* where the host names it by its one label before visualstudio.com.       *)
ParseAdoPath(id, host, path) ==
  LET full == IF IsLegacyAdo(host) THEN << host[1] >> \o path ELSE path
  IN  IF Len(full) < 6 \/ full[3] # "_git" \/ full[5] # "pullrequest" THEN {}
      ELSE AdoFinalise(id, full[1], full[2], full[4], full[6])

ParseUrl(host, path) ==
  UNION {IF id.kind = "ado" THEN ParseAdoPath(id, host, path)
                            ELSE ParseGithubPath(id, path) : id \in FromBrowseHost(host)}

Parse(text) ==
  CASE text.form = "url"   -> ParseUrl(text.host, text.path)
    [] text.form = "short" -> ParseShorthand(text.path, text.number)
    [] OTHER               -> {}

(* Display leaves out the host.                                            *)
Shown(ref) == Short(ref.owner \o ref.repo, ref.number)

-----------------------------------------------------------------------------
(* extract_pr_ref: the first owner/repo#number of a description, or else   *)
(* the first URL on github.com.                                            *)
LooksShort(word) == word.form = "short" /\ Len(word.path) >= 2
LooksUrl(word)   == word.form = "url" /\ word.host = GithubCom.host

Shorts(words) == {words[i] : i \in {k \in DOMAIN words : LooksShort(words[k])}}
Urls(words)   == {words[i] : i \in {k \in DOMAIN words : LooksUrl(words[k])}}

First(words, like) ==
  {words[k] : k \in {i \in DOMAIN words :
                       words[i] \in like /\ \A j \in 1..i - 1 : words[j] \notin like}}

ExtractPrRef(words) == First(words, IF Shorts(words) # {} THEN Shorts(words) ELSE Urls(words))

=============================================================================
