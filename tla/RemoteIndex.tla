---------------------------- MODULE RemoteIndex ----------------------------
(***************************************************************************)
(* Where artefacts may be fetched from and how one is asked for (REQ-24):  *)
(* indexing/resolver.py merges the indexes of the command line, the user's *)
(* configuration and the environment; the Java analyser builds a client    *)
(* (analysers/java/__init__.py), which follows redirects with a fresh look *)
(* at every hop (indexing/http_client.py).  Fetcher takes the outcome of a *)
(* GET as an input; here are its steps.                                    *)
(*                                                                         *)
(* A URL is a record [scheme, userinfo, host, port]: its path plays no     *)
(* part.  An address is the name of its class; an IPv4 address mapped into *)
(* IPv6 is of the class of the former, as _ip_is_safe has it.              *)
(***************************************************************************)
EXTENDS Selection, SequencesExt

CONSTANTS
  Settings,       \* what an operator may set: records, see MCScarnoRun
  EcoOrder,       \* the ecosystems, sorted
  Addresses,      \* host -> the lists of addresses its name may resolve to
  Replies,        \* what a server may answer
  MaxRedirects

Ecos == Range(EcoOrder)
Sources == <<"cli", "user_config", "env">>
Schemes == {"https", "http"}
\* Classes that are never acceptable, whatever the operator allows.
Never == {"loopback", "link-local", "multicast", "cgnat", "reserved", "unspecified"}

States == {"absent", "escapes", "malformed", "tables"}
IsSetting(s) ==
  /\ s.cli \in Seq(Range(s.cli)) /\ s.env \in Seq(Range(s.env))
  /\ \A home \in {"xdg", "home"} :
       LET f == s.files[home] IN f.state \in States /\ f.entries \in Seq(Range(f.entries))

\* No source takes an entry without an ecosystem.
ASSUME EcoAssumption ==
  /\ EcoOrder \in Seq(Ecos) /\ "" \notin Ecos
  /\ \A i, j \in DOMAIN EcoOrder : EcoOrder[i] = EcoOrder[j] => i = j
ASSUME SettingAssumption == \A s \in Settings : IsSetting(s)
ASSUME RedirectAssumption == MaxRedirects \in 0..5
ASSUME AddressAssumption ==
  \A h \in DOMAIN Addresses : \A a \in Addresses[h] :
    Range(a) \subseteq Never \cup {"public", "private"}

VARIABLES
  set,            \* the operator's settings
  step,           \* what is done next
  found,          \* per source and ecosystem, the URLs that were accepted
  warnings,       \* kinds of audit lines
  endpoints,      \* the merged list: records [eco, url, source]
  asked,          \* how many endpoints have been asked
  current, hop,   \* of the GET that runs: the URL, and the redirects so far
  pinned,         \* the address the present hop will connect to
  log,            \* the connections made: records [host, address, scheme]
  named,          \* hosts that an endpoint or a redirect named
  result          \* of the last GET: "none", "error", "status", "ValueError"

request == <<asked, current, hop, pinned, log, named, result>>
rvars == <<set, step, found, warnings, endpoints, request>>

NoUrl == [scheme |-> "", userinfo |-> FALSE, host |-> "", port |-> ""]
Empty == [e \in Ecos |-> <<>>]

RInit ==
  /\ set \in Settings
  /\ step = IF set.fetch THEN "cli" ELSE "done"
  /\ found = [s \in Range(Sources) |-> Empty]
  /\ warnings = {} /\ endpoints = <<>>
  /\ asked = 0 /\ current = NoUrl /\ hop = 0 /\ pinned = "" /\ log = {} /\ named = {}
  /\ result = "none"
----------------------------------------------------------------------------
(* Reading the sources. *)

\* _validate_url, when an index is configured: the port is not looked at.
Acceptable(u) == u.scheme = "https" /\ ~ u.userinfo /\ u.host # ""

\* The accepted URLs of each ecosystem, in order; entries are [eco, url].
Accepted(entries) ==
  [e \in Ecos |->
     LET mine == Where(entries, LAMBDA x : x.eco = e /\ Acceptable(x.url))
     IN [i \in DOMAIN mine |-> mine[i].url]]

Rejects(entries, why) ==
  IF \E i \in DOMAIN entries : ~ Acceptable(entries[i].url) THEN {why} ELSE {}

\* --index ECOSYSTEM=URL; an entry without "=" or without ecosystem is ignored.
ParseCli ==
  /\ step = "cli"
  /\ LET wellFormed == Where(set.cli, LAMBDA x : x.eco # "")
     IN /\ found' = [found EXCEPT !["cli"] = Accepted(wellFormed)]
        /\ warnings' = warnings \cup Rejects(wellFormed, "cli rejected")
                         \cup (IF wellFormed # set.cli THEN {"cli malformed"} ELSE {})
  /\ step' = "config"
  /\ UNCHANGED <<set, endpoints, request>>

\* resolve_user_config_path: $XDG_CONFIG_HOME unless it lies in the project or
\* the working directory, ~/.config otherwise.
ConfigHome == IF set.xdg = "elsewhere" THEN "xdg" ELSE "home"

LocateConfig ==
  /\ step = "config"
  /\ warnings' = warnings
       \cup (IF set.xdg \in {"in cwd", "in project", "unresolvable"} THEN {"xdg ignored"} ELSE {})
       \cup (IF set.files[ConfigHome].state = "escapes" THEN {"config escapes"} ELSE {})
  /\ step' = IF set.files[ConfigHome].state \in {"absent", "escapes"} THEN "env" ELSE "toml"
  /\ UNCHANGED <<set, found, endpoints, request>>

\* [indexes] of config.toml: a value that is no list is skipped with its warning.
ParseConfig ==
  /\ step = "toml"
  /\ LET f == set.files[ConfigHome]
         listed == Where(f.entries, LAMBDA x : x.isList)
     IN IF f.state = "malformed"
        THEN warnings' = warnings \cup {"config malformed"} /\ UNCHANGED found
        ELSE /\ found' = [found EXCEPT !["user_config"] = Accepted(listed)]
             /\ warnings' = warnings \cup Rejects(listed, "config rejected")
                              \cup (IF listed # f.entries THEN {"config no list"} ELSE {})
  /\ step' = "env"
  /\ UNCHANGED <<set, endpoints, request>>

ParseEnv ==
  /\ step = "env"
  /\ found' = [found EXCEPT !["env"] = Accepted(set.env)]
  /\ warnings' = warnings \cup Rejects(set.env, "env rejected")
  /\ step' = "merge"
  /\ UNCHANGED <<set, endpoints, request>>

\* The environment counts for nothing when fetching is on, which is the only
\* way the analysers call this.
Considered(s) == IF s = "env" /\ set.fetch THEN Empty ELSE found[s]

\* The first source that has a URL for an ecosystem owns its whole list.
Owner(e) ==
  Where(Sources, LAMBDA s : Considered(s)[e] # <<>>)

\* Mutant of EndpointsOf: every source adds to the list.
EndpointsOfAll(s, e) ==
  [i \in DOMAIN Considered(s)[e] |-> [eco |-> e, url |-> Considered(s)[e][i], source |-> s]]

EndpointsOf(s, e) ==
  IF Owner(e) # <<>> /\ s = Head(Owner(e))
  THEN [i \in DOMAIN Considered(s)[e] |-> [eco |-> e, url |-> Considered(s)[e][i], source |-> s]]
  ELSE <<>>

Merge ==
  /\ step = "merge"
  /\ endpoints' = FlattenSeq([i \in DOMAIN Sources |->
                    FlattenSeq([j \in DOMAIN EcoOrder |-> EndpointsOf(Sources[i], EcoOrder[j])])])
  /\ warnings' = warnings
       \cup (IF set.fetch /\ found["env"] # Empty THEN {"env dropped"} ELSE {})
  /\ step' = "build"
  /\ UNCHANGED <<set, found, request>>

CountOf(e) == Cardinality({i \in DOMAIN endpoints : endpoints[i].eco = e})
Hosts == {endpoints[i].url.host : i \in DOMAIN endpoints}

\* _maybe_build_fetcher: without an index nothing is fetched; otherwise advice
\* on cross-checks and on allowances that no index needs.
BuildClient ==
  /\ step = "build"
  /\ LET configured == {e \in Ecos : CountOf(e) > 0}
     IN warnings' = warnings
          \cup (IF endpoints = <<>> THEN {"no indexes"} ELSE {})
          \cup (IF ~ set.crossCheck /\ \E e \in configured : CountOf(e) >= 2
                THEN {"could cross-check"} ELSE {})
          \cup (IF set.crossCheck /\ \E e \in configured : CountOf(e) < 2
                THEN {"cross-check is a no-op"} ELSE {})
          \cup (IF endpoints # <<>> /\ set.allowed \ Hosts # {} THEN {"orphaned allowance"} ELSE {})
  /\ step' = IF endpoints = <<>> THEN "done" ELSE "ask"
  /\ UNCHANGED <<set, found, endpoints, request>>
----------------------------------------------------------------------------
(* One GET after the other, until an index answers. *)

ForMaven == Where(endpoints, LAMBDA p : p.eco = "maven")
Unmoved == UNCHANGED <<set, found, warnings, endpoints>>

Ask ==
  /\ step = "ask"
  /\ result \notin {"status", "ValueError"}       \* an error falls through
  /\ asked < Len(ForMaven)
  /\ asked' = asked + 1
  /\ current' = ForMaven[asked + 1].url
  /\ named' = named \cup {current'.host}
  /\ hop' = 0
  /\ step' = "validate"
  /\ Unmoved /\ UNCHANGED <<pinned, log, result>>

AllAsked ==
  /\ step = "ask"
  /\ result \in {"status", "ValueError"} \/ asked = Len(ForMaven)
  /\ step' = "done"
  /\ Unmoved /\ UNCHANGED request

Ends(r) ==
  /\ result' = r
  /\ step' = "ask"
  /\ Unmoved /\ UNCHANGED <<asked, current, hop, pinned, log, named>>

\* _validate_url at request time; urllib raises ValueError on a port that is
\* no number, which is not a SafeHttpsError.
Validate ==
  /\ step = "validate"
  /\ \/ ~ Acceptable(current) /\ Ends("error")
     \/ Acceptable(current) /\ current.port = "bad" /\ Ends("ValueError")
     \/ /\ Acceptable(current) /\ current.port # "bad"
        /\ step' = "pin"
        /\ Unmoved /\ UNCHANGED request

IpIsSafe(class, allowPrivate) ==
  class = "public" \/ (class = "private" /\ allowPrivate)

\* Mutant of Allowance: the allowance of the first host goes with the redirect.
AllowanceInherited(host) == host \in set.allowed \/ ForMaven[asked].url.host \in set.allowed

\* The allowance is looked up for the host of this hop.
Allowance(host) == host \in set.allowed

\* The first safe address of whatever the name resolves to now.
ResolveAndPin ==
  /\ step = "pin"
  /\ \E as \in Addresses[current.host] :
       LET Safe(i) == IpIsSafe(as[i], Allowance(current.host)) IN
       \/ /\ \A i \in DOMAIN as : ~ Safe(i)
          /\ Ends("error")
       \/ \E i \in DOMAIN as :
            /\ Safe(i)
            /\ \A j \in 1..(i - 1) : ~ Safe(j)
            /\ pinned' = as[i]
            /\ step' = "connect"
            /\ Unmoved /\ UNCHANGED <<asked, current, hop, log, named, result>>

\* Where a Location leads: an absolute one as it is; any other stays on the
\* host of the current URL, "//host/path" included.
RedirectTarget(loc) == IF loc.absolute THEN loc.url ELSE current

\* Mutant of Follow: the redirects are not counted.
FollowUncounted(loc) ==
  /\ current' = RedirectTarget(loc)
  /\ named' = named \cup {current'.host}
  /\ step' = "validate"
  /\ UNCHANGED <<hop, result>>

Follow(loc) ==
  IF hop >= MaxRedirects
  THEN /\ result' = "error"
       /\ step' = "ask"
       /\ UNCHANGED <<current, hop, named>>
  ELSE /\ current' = RedirectTarget(loc)
       /\ named' = named \cup {current'.host}
       /\ hop' = hop + 1
       /\ step' = "validate"
       /\ UNCHANGED result

\* The connection goes to the pinned address.  It may fail, before or after
\* the request was sent, or the body may be too large.
Perform ==
  /\ step = "connect"
  /\ log' = log \cup {[host |-> current.host, address |-> pinned, scheme |-> current.scheme]}
  /\ \E r \in Replies :
       IF r.kind = "redirect" THEN Follow(r)
       ELSE /\ result' = IF r.kind = "status" THEN "status" ELSE "error"
            /\ step' = "ask"
            /\ UNCHANGED <<current, hop, named>>
  /\ Unmoved /\ UNCHANGED <<asked, pinned>>

RStep == \/ ParseCli \/ LocateConfig \/ ParseConfig \/ ParseEnv \/ Merge \/ BuildClient
         \/ Ask \/ AllAsked \/ Validate \/ ResolveAndPin \/ Perform
----------------------------------------------------------------------------
(* Properties. *)

\* What a source offers for e, read from the settings.
Offers(s, e) ==
  LET entries == CASE s = "cli" -> set.cli
                   [] s = "env" -> set.env
                   [] s = "user_config" ->
                        LET f == set.files[IF set.xdg = "elsewhere" THEN "xdg" ELSE "home"]
                        IN IF f.state = "tables" THEN Where(f.entries, LAMBDA x : x.isList) ELSE <<>>
  IN Where(entries, LAMBDA x : x.eco = e /\ Acceptable(x.url))

\* A source mentions e when it has an entry for it, acceptable or not.
Mentions(s, e) ==
  \/ s = "cli" /\ \E x \in Range(set.cli) : x.eco = e
  \/ s = "user_config" /\ LET f == set.files[IF set.xdg = "elsewhere" THEN "xdg" ELSE "home"]
                          IN f.state = "tables" /\ \E x \in Range(f.entries) : x.eco = e

\* A source passes e on to a weaker one: silently when it does not mention e,
\* with a warning when it does.
PassesOn(s, e) ==
  /\ Offers(s, e) = <<>>
  /\ Mentions(s, e) =>
       warnings \cap (IF s = "cli" THEN {"cli rejected"} ELSE {"config rejected", "config no list"}) # {}

\* FR-259, SEC-NEW-62: the indexes of an ecosystem are those of one source, all
\* of them and in its order; the environment is never that source when fetching
\* is on; and the sources above it have no acceptable entry for the ecosystem,
\* of which the operator is warned if they mention it.  By the words of
\* resolver.py:18, 310 and REQ-24.md:268 the highest source that mentions an
\* ecosystem would own it, and one whose entries were all rejected would leave
\* it without an index; the code lets the next source have it.
OneOwner ==
  step \in {"ask", "validate", "pin", "connect"} =>
    \A e \in Ecos :
      LET mine == Where(endpoints, LAMBDA p : p.eco = e)
          order == <<"cli", "user_config">>
      IN \/ mine = <<>> /\ \A i \in 1..2 : PassesOn(order[i], e)
         \/ \E i \in 1..2 :
              /\ \A j \in 1..(i - 1) : PassesOn(order[j], e)
              /\ Len(mine) = Len(Offers(order[i], e))
              /\ \A k \in DOMAIN mine : /\ mine[k].source = order[i]
                                        /\ mine[k].url = Offers(order[i], e)[k].url

\* Every connection is by TLS to an address that is public, or private when
\* the operator allowed that very host; and to a host that a configured index
\* or a redirect of one named.  No address that a name resolved to at an
\* earlier hop, and no allowance of another host, is carried over.
ConnectionsAreVetted ==
  \A c \in log :
    /\ c.scheme = "https"
    /\ c.address \notin Never
    /\ c.address = "private" => c.host \in set.allowed
    /\ \E as \in Addresses[c.host] : c.address \in Range(as)
    /\ c.host \in named
=============================================================================
