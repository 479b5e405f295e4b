--------------------------- MODULE MCPrShepherd ---------------------------
(* Values for the constants of PrShepherd. *)
EXTENDS PrShepherd, TLC

CONSTANTS p1, p2

\* A push, then a force push back to the first head.
HeadsTwo   == << "A", "B" >>
HeadsABA   == << "A", "B", "A" >>
OneHead    == << "A" >>

GithubCom  == Refs!GithubCom.host

Symmetry == Permutations(PRs)

-----------------------------------------------------------------------------
(* Tests of PrRefs over some hosts. *)
Hosts == {<< "github", "com" >>, << "www", "github", "com" >>, << "ghe", "corp" >>,
          << "github", "corp" >>, << "dev", "azure", "com" >>,
          << "org", "visualstudio", "com" >>, << "github", "visualstudio", "com" >>,
          << "corp", "ghe", "com" >>, << "gitlab", "com" >>}
Known == {h \in Hosts : Refs!FromBrowseHost(h) # {}}

(* The address a PR of a host has in a browser, by the host's own rules.   *)
Browse(h, p) ==
  Refs!Url(h, CASE h = << "dev", "azure", "com" >> ->
                     << "org", "project", "_git", "repo", "pullrequest", p >>
                [] Len(h) = 3 /\ h[2] = "visualstudio" ->
                     << "project", "_git", "repo", "pullrequest", p >>
                [] OTHER -> << "owner", "repo", "pull", p, "files" >>)

(* The PR found at an address is of that host, and what parse is told      *)
(* again of a PR in its short form is that PR on github.com only.          *)
ASSUME AddressesParse ==
  \A h \in Known, p \in PRs : \E ref \in Refs!Parse(Browse(h, p)) :
    /\ {ref.host} = Refs!FromBrowseHost(h) /\ ref.number = p
    /\ Refs!Parse(Refs!Shown(ref)) = {ref} <=> ref.host = Refs!GithubCom

(* Hosts have one key in the ledger each, but for the two names of         *)
(* github.com and those of Azure DevOps, whose organizations are in the    *)
(* owner.                                                                  *)
ASSUME HostsApart ==
  \A h, g \in Known :
    \A i \in Refs!FromBrowseHost(h), j \in Refs!FromBrowseHost(g) :
      Refs!HostKey(i) = Refs!HostKey(j) =>
        h = g \/ i \in {Refs!GithubCom, Refs!AzureDevOps}

(* task/add takes the addresses on github.com only.                        *)
ASSUME AddressesTaken ==
  \A h \in Hosts, p \in PRs :
    Refs!ExtractPrRef(<< Browse(h, p) >>) # {} <=> h = GithubCom
=============================================================================
