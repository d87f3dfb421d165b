------------------------------ MODULE MCHttpApi ------------------------------
EXTENDS HttpApi

Price == [input |-> 2, cached_input |-> 1, output |-> 3]
Model(id, aliases, group, enabled) ==
  [id |-> id, aliases |-> aliases, group |-> group, enabled |-> enabled,
   eligible |-> TRUE, price |-> Price]
SomeModels == {Model("big", {"big-latest"}, "standard", TRUE),
               Model("small", {}, "mini", TRUE),
               Model("old", {}, "standard", FALSE)}
SomeQuota == [standard |-> 8, mini |-> 8]

\* Results: two that share a key, one of no project, one of a disabled model,
\* one that the catalog does not know, one with blanks, one malformed.
Result(project, id, form, kind, spelling, input, cached) ==
  [project |-> project, model |-> [id |-> id, form |-> form],
   tier |-> [kind |-> kind, form |-> spelling],
   input |-> input, cached |-> cached, write |-> 0, output |-> 1]
FreeBig  == Result("p", "big", "plain", "incentivized", "canonical", 2, 1)
SpeltBig == Result("p", "big", "plain", "incentivized", "underscores", 4, 0)
SomeResults ==
  {<<FreeBig>>, <<SpeltBig>>,
   <<Result("unattributed", "small", "dated", "incentivized", "canonical", 8, 2)>>,
   <<Result("q", "old", "plain", "incentivized", "canonical", 16, 0),
     Result("q", "other", "plain", "default", "canonical", 32, 0)>>,
   <<Result("p", "big-latest", "blanks", "incentivized", "canonical", 1, 0)>>,
   <<Result("p", "big", "plain", "default", "canonical", 1, 2)>>}
Next3 == {"c1", "c2", NoPage}
SomePages == [form : {"ok"}, results : SomeResults,
              next : Next3]
               \union {[form |-> "noData", results |-> <<>>, next |-> NoPage]}
SomeCosts == [form : {"ok"}, amount : {1}, next : Next3]
               \union {[form |-> "otherCurrency", amount |-> 0, next |-> NoPage]}

-----------------------------------------------------------------------------
\* Requests: a good one of every method and route, and all that differ from it
\* in at most two fields.
GetRoutes == Unchecked \union {"locale", "updateStatus", "profiles", "profile", "history",
               "projects", "alerts", "alertHistory", "integrity", "page", "asset"}
\* Operations that change state: everything but a GET.
Changing == {<<"PUT", r>> : r \in PutRoutes} \union {<<"POST", r>> : r \in PostRoutes}
              \union {<<"DELETE", r>> : r \in {"profile", "profileKey", "alert"}}
Operations ==
  {<<"GET", r>> : r \in GetRoutes} \union Changing
    \union {<<"PUT", "sync">>, <<"POST", "config">>, <<"DELETE", "config">>, <<"OPTIONS", "config">>}
Good(method, route) ==
  [method |-> method, route |-> route, name |-> "one", host |-> "own", site |-> "same",
   origin |-> "own", target |-> "fits",
   query |-> IF method = "GET" /\ route = "history" THEN "allowed" ELSE "none",
   key |-> "valid", chunked |-> FALSE, length |-> "number", size |-> 1, type |-> "json",
   document |-> "object"]
Fields ==
  [name     |-> {"empty", "nested", "parent", "other", "undecodable"},
   host     |-> {"noPort", "foreign"},
   site     |-> {"cross"},
   origin   |-> {"absent", "foreign", "unreadable"},
   target   |-> {"tooLong"},
   query    |-> {"none", "allowed", "unknown", "twice", "malformed", "badValue"},
   key      |-> {"absent", "malformed"},
   chunked  |-> {TRUE},
   length   |-> {"absent", "negative", "malformed"},
   size     |-> {0, 2, 3, 5},
   type     |-> {"other"},
   document |-> {"notJson", "duplicateField", "notObject", "unknownField", "missingField"}]
Varied(rs, fs) == rs \union UNION {{[r EXCEPT ![f] = v] : v \in Fields[f]} : r \in rs, f \in fs}
Headers == {"host", "site", "origin", "target"}
Framing == {"chunked", "length", "size"}
\* The two handlers that compute their answer are varied less: every request
\* that they admit explores the upstream or the manifests anew.
Computed(r) == r.route = "data" \/ r.route = "updateCheck"
SomeRequests ==
  LET good == {Good(op[1], op[2]) : op \in Operations}
      plain == {r \in good : ~Computed(r)}
      checks == {r \in good : r.route = "updateCheck"}
  IN Varied(Varied(plain, DOMAIN Fields \ {"key"}), Framing \union {"query", "name", "document"})
       \union Varied(checks, Headers \union Framing)
       \union Varied({Good("GET", "data")}, {"key"})

-----------------------------------------------------------------------------
\* Manifests: what trusted and other keys signed, and what was altered since.
Id(value, numeric) == [value |-> value, numeric |-> numeric]
V(minor, pre) == [core |-> <<1, minor, 0>>, pre |-> pre]
Rc1 == <<Id(1, FALSE), Id(1, TRUE)>>
Rc2 == <<Id(1, FALSE), Id(2, TRUE)>>
SomeVersions == {V(1, <<>>), V(2, <<Id(1, FALSE)>>), V(2, Rc1), V(2, Rc2), V(2, <<Id(7, TRUE)>>),
                 V(2, <<>>), V(3, <<>>)}
Artifact == [url |-> [https |-> TRUE, host |-> "files"], size |-> 1, target |-> "linux"]
Manifest(version, channel) ==
  [form |-> "object", key |-> "none", signature |-> "none", schema |-> 1,
   channel |-> channel, version |-> version, minimum |-> V(1, <<>>), published |-> 1,
   expires |-> 0, artifacts |-> <<Artifact>>, notes |-> [https |-> TRUE, host |-> "notes"]]
Plain == {Manifest(v, c) : v \in SomeVersions, c \in {"stable", "beta"}}
Odd == LET m == Manifest(V(3, <<>>), "stable")
       IN {[m EXCEPT !.schema = 2], [m EXCEPT !.minimum = V(3, <<>>)], [m EXCEPT !.expires = 2],
           [m EXCEPT !.expires = 5], [m EXCEPT !.artifacts = <<>>],
           [m EXCEPT !.artifacts = <<Artifact, Artifact>>],
           [m EXCEPT !.artifacts[1].size = 3], [m EXCEPT !.artifacts[1].url.host = "elsewhere"],
           [m EXCEPT !.artifacts[1].url.host = "unencodable"],
           [m EXCEPT !.notes.https = FALSE], [m EXCEPT !.form = "holdsPrivateKey"]}
Signed == {Sign(m, k) : m \in {n \in Plain \union Odd : MaySign(n)}, k \in {"ours", "theirs"}}
SomeManifests ==
  Signed \union {[m EXCEPT !.key = "ours"] : m \in Signed}
         \union {[m EXCEPT !.version = V(3, <<>>)] : m \in Signed}
         \union {[m EXCEPT !.form = "malformed"] : m \in Signed}
UpdaterV == V(2, <<>>)
==============================================================================
