--------------------------- MODULE UpdateManifest ---------------------------
(***************************************************************************)
(* Signed update metadata: update_manifest.py with semver.py and           *)
(* update_crypto.py.  A publisher signs a manifest; what the checker gets  *)
(* may be that manifest, an altered one, or no manifest at all.            *)
(*                                                                         *)
(* A signature is the key that made it and the content it was made over:   *)
(* Ed25519 is taken to be unforgeable.  JSON, base64, timestamps and URLs  *)
(* are read by the code; here a manifest is a record whose "form" says     *)
(* what is wrong with its text, if anything.                               *)
(***************************************************************************)
EXTENDS Integers, Sequences, FiniteSetsExt

CONSTANTS
  TrustedKeys,     \* key ids of the keyring built into the program
  ArtifactHosts,   \* hosts the policy allows artifacts on
  NotesHosts,      \* hosts the policy allows release notes on
  AllowedChannels, \* channels the policy allows
  Channel,         \* channel of this installation
  UpdaterVersion,  \* version of the updater
  MaxArtifacts,    \* most artifacts of a manifest (32 in the code)
  MaxSize,         \* largest artifact the policy allows
  CheckTime,       \* time of the check
  MaxIdentifier    \* bound: values of prerelease identifiers

-----------------------------------------------------------------------------
(* Semantic versions: a core <<major, minor, patch>> and the prerelease    *)
(* identifiers, numbered in their order; build metadata does not count.    *)

Identifier == [value : 0 .. MaxIdentifier, numeric : BOOLEAN]
Version    == [core : [1 .. 3 -> Nat], pre : Seq(Identifier)]

ASSUME ManifestAssumption ==
  /\ AllowedChannels \subseteq {"stable", "beta"}
  /\ Channel \in {"stable", "beta"}
  /\ MaxArtifacts \in Nat /\ MaxSize \in Nat /\ CheckTime \in Nat
  /\ MaxIdentifier \in Nat /\ UpdaterVersion \in Version

IsPrerelease(v) == v.pre # <<>>

\* Places where two sequences differ, up to the end of the shorter one.
Differences(s, t) == {i \in DOMAIN s \intersect DOMAIN t : s[i] # t[i]}

\* A numeric identifier precedes every other one.
IdLess(a, b) == \/ a.numeric /\ ~b.numeric
                \/ a.numeric = b.numeric /\ a.value < b.value

\* Mutant: the shorter of two prereleases with a common start is the later.
PreLess_LongerFirst(s, t) ==
  /\ s # <<>>
  /\ \/ t = <<>>
     \/ LET d == Differences(s, t)
        IN IF d = {} THEN Len(s) > Len(t) ELSE IdLess(s[Min(d)], t[Min(d)])

\* _compare_prerelease: no prerelease is the release itself, the latest.
PreLess(s, t) ==
  /\ s # <<>>
  /\ \/ t = <<>>
     \/ LET d == Differences(s, t)
        IN IF d = {} THEN Len(s) < Len(t) ELSE IdLess(s[Min(d)], t[Min(d)])

VersionLess(v, w) ==
  IF v.core # w.core
  THEN LET d == Min(Differences(v.core, w.core)) IN v.core[d] < w.core[d]
  ELSE PreLess(v.pre, w.pre)

-----------------------------------------------------------------------------
(* Publishing                                                              *)

Content(m) == [f \in DOMAIN m \ {"signature"} |-> m[f]]

Sign(m, k) ==
  LET keyed == [m EXCEPT !.key = k]
  IN [keyed EXCEPT !.signature = [by |-> k, over |-> Content(keyed)]]

\* ensure_manifest_can_be_signed
MaySign(m) == m.form # "holdsPrivateKey"

-----------------------------------------------------------------------------
(* Parsing                                                                 *)

Verified(m) == /\ m.key \in TrustedKeys
               /\ m.signature = [by |-> m.key, over |-> Content(m)]

\* validate_https_url: "ok", or how it fails.  A host that IDNA cannot encode
\* raises ValueError, which is not one of the manifest errors.
UrlVerdict(url, hosts) ==
  IF ~url.https THEN "refused"
  ELSE IF url.host = "unencodable" THEN "escapes"
  ELSE IF url.host \in hosts THEN "ok" ELSE "refused"

ArtifactVerdict(a) ==
  IF UrlVerdict(a.url, ArtifactHosts) # "ok" THEN UrlVerdict(a.url, ArtifactHosts)
  ELSE IF a.size \in 1 .. MaxSize /\ a.target # "unsupported" THEN "ok" ELSE "refused"

\* The artifacts are parsed in order: the first that is not accepted decides.
ArtifactsVerdict(as) ==
  LET bad == {i \in DOMAIN as : ArtifactVerdict(as[i]) # "ok"}
  IN IF as = <<>> \/ Len(as) > MaxArtifacts THEN "refused"
     ELSE IF bad # {} THEN ArtifactVerdict(as[Min(bad)])
     ELSE IF Cardinality({as[i].target : i \in DOMAIN as}) = Len(as) THEN "ok"
     ELSE "refused"

ChannelAccepts(m) ==
  /\ m.channel \in AllowedChannels
  /\ (m.channel = "beta") = IsPrerelease(m.version)

\* expires_at is optional (0 here).
InTime(m) == m.expires = 0 \/ (m.expires > m.published /\ m.expires > CheckTime)

\* ManifestParser.parse.
ParseVerdict(m) ==
  IF ~(m.form = "object" /\ Verified(m) /\ m.schema = 1 /\ ChannelAccepts(m) /\ InTime(m))
  THEN "refused"
  ELSE IF ArtifactsVerdict(m.artifacts) # "ok" THEN ArtifactsVerdict(m.artifacts)
  ELSE UrlVerdict(m.notes, NotesHosts)

-----------------------------------------------------------------------------
(* Checking                                                                *)

Evaluate(m, current) ==
  IF m.channel # Channel THEN "ignored-channel"
  ELSE IF VersionLess(m.version, current) THEN "rejected-downgrade"
  ELSE IF m.version = current THEN "up-to-date"
  ELSE IF VersionLess(UpdaterVersion, m.minimum) THEN "incompatible-updater"
  ELSE "available"

\* UrllibManifestFetcher.fetch: a refused URL, redirect or size is a manifest
\* error, anything else that goes wrong is the network's.
FetchVerdict(delivery) ==
  IF delivery \in {"redirected", "tooLarge"} THEN "invalid-manifest" ELSE "network-error"

\* UpdateChecker.check_remote, of a document that was fetched; "escapes" is an
\* exception for the caller.
CheckDocument(m, current) ==
  CASE ParseVerdict(m) = "ok"      -> Evaluate(m, current)
    [] ParseVerdict(m) = "refused" -> "invalid-manifest"
    [] ParseVerdict(m) = "escapes" -> "escapes"

-----------------------------------------------------------------------------
(* The order that semver.org defines, by a key: the identifiers with an    *)
(* end mark below, and the release above every identifier.                 *)
IdentifierKey(a) == a.value + 1 + IF a.numeric THEN 0 ELSE MaxIdentifier + 1

PreKey(s) == IF s = <<>> THEN <<2 * MaxIdentifier + 3>>
             ELSE [i \in 1 .. (Len(s) + 1) |-> IF i > Len(s) THEN 0 ELSE IdentifierKey(s[i])]

Precedes(v, w) ==
  LET a == v.core \o PreKey(v.pre)
      b == w.core \o PreKey(w.pre)
      d == Differences(a, b)
  IN d # {} /\ a[Min(d)] < b[Min(d)]
=============================================================================
