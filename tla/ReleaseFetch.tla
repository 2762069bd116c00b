---------------------------- MODULE ReleaseFetch ----------------------------
(***************************************************************************)
(* How a release is resolved, verified and downloaded while its publisher  *)
(* goes on publishing (src/src/release/download.rs), and checked once more *)
(* when the installation's lock is granted.                                *)
(*                                                                         *)
(* A release has three assets behind URLs of their own: a manifest, a      *)
(* detached signature of it, and an archive.  The client asks for them in  *)
(* turn; the publisher moves `latest' and replaces assets one at a time.   *)
(* A URL is reduced to the release it names, a clock to small numbers, and *)
(* an envelope to the keys that signed one manifest.                       *)
(***************************************************************************)
EXTENDS Integers, FiniteSets

CONSTANTS
    Version,        \* release versions
    Archive,        \* contents of an archive
    Key,            \* signing keys
    Trusted,        \* the keys of the client's trust anchor
    Date,           \* the expires_at the publisher may choose
    Skew,           \* EXPIRY_CLOCK_SKEW
    MaxRedirects,   \* MAX_REDIRECTS
    Bounds,         \* bounds: of a behaviour, its last time, how often something
                    \* is published in it, and the dates it is published with
    None

ASSUME KeyAssumption == Trusted \subseteq Key
ASSUME TimeAssumption ==
    /\ Date \subseteq Nat
    /\ {Skew, MaxRedirects} \subseteq Nat
    /\ Bounds \subseteq [time : Nat, published : Nat, dates : SUBSET Date]

Manifest == [version : Version, archive : Archive, expires : Date]
Envelope == [of : Manifest, keys : SUBSET Key \ {{}}]
Release  == [manifest : Manifest, signature : Envelope, archive : Archive]
Asset    == {"manifest", "signature", "archive"}
Draft    == [version : Version, release : Release, left : SUBSET Asset]

ASSUME NoneAssumption == None \notin Version \cup Archive \cup Release \cup Draft

VARIABLES
    release,    \* what the server has of each version, or None
    latest,     \* the release behind the moving URL
    draft,      \* the replacement being uploaded: of which release, and what is left
    published,  \* how often the publisher has published
    bound,      \* the bounds of this behaviour
    now,        \* the time
    offset,     \* how far the client's clock is ahead of it
    pc,         \* where the call is
    wanted,     \* the version asked for, None for the latest
    url,        \* the release the request is at, None for the latest
    named,      \* the releases its redirect history names
    hops,       \* redirects of this request
    version,    \* the version resolved
    manifest,   \* what has been fetched ...
    envelope,
    archive,
    seen,       \* history: what has been latest since the call began
    touched,    \* history: the releases that were being replaced since then
    forwarded   \* history: a release's own URL was redirected to another release

server  == <<release, latest, draft, published>>
clock   == <<now, offset>>
request == <<url, named, hops>>
fetched == <<version, manifest, envelope, archive>>
call    == <<pc, wanted, request, fetched>>
history == <<seen, touched, forwarded>>
vars    == <<bound, server, clock, call, history>>

Requests == {"manifest", "signature", "archive"}

TypeOK ==
    /\ release \in [Version -> Release \cup {None}]
    /\ latest \in Version \cup {None}
    /\ draft \in Draft \cup {None}
    /\ bound \in Bounds
    /\ published \in 0..bound.published
    /\ now \in 0..bound.time /\ offset \in -Skew..Skew
    /\ pc \in Requests \cup {"idle", "lock", "activated", "refused"}
    /\ {wanted, url, version} \subseteq Version \cup {None}
    /\ named \subseteq Version
    /\ hops \in 0..MaxRedirects
    /\ manifest \in Manifest \cup {None}
    /\ envelope \in Envelope \cup {None}
    /\ archive \in Archive \cup {None}
    /\ seen \subseteq Version /\ touched \subseteq Version
    /\ forwarded \in BOOLEAN

Init ==
    /\ release = [v \in Version |-> None]
    /\ latest = None
    /\ draft = None
    /\ bound \in Bounds
    /\ published = 0
    /\ now = 0
    /\ offset \in -Skew..Skew
    /\ pc = "idle"
    /\ wanted = None /\ url = None /\ named = {} /\ hops = 0
    /\ version = None /\ manifest = None /\ envelope = None /\ archive = None
    /\ seen = {} /\ touched = {} /\ forwarded = FALSE

-----------------------------------------------------------------------------
(* The publisher, and time.                                                *)

\* A release as the publisher means it: signed, and naming its archive.
Made(v) ==
    {[manifest  |-> m, signature |-> [of |-> m, keys |-> k], archive |-> m.archive] :
        m \in {n \in Manifest : n.version = v /\ n.expires \in bound.dates}, k \in SUBSET Key \ {{}}}

\* A new release appears with all its assets.
Publish ==
    /\ published < bound.published
    /\ published' = published + 1
    /\ \E v \in Version :
         /\ release[v] = None
         /\ \E r \in Made(v) : release' = [release EXCEPT ![v] = r]
    /\ UNCHANGED <<latest, draft, clock, call, history>>

MoveLatest ==
    /\ \E v \in Version \ {latest} :
         /\ release[v] # None
         /\ latest' = v
         /\ seen' = IF pc = "idle" THEN seen ELSE seen \cup {v}
    /\ UNCHANGED <<release, draft, published, clock, call, touched, forwarded>>

\* A release is signed or built again: its assets are replaced one by one.
BeginReplacing ==
    /\ published < bound.published
    /\ published' = published + 1
    /\ draft = None
    /\ \E v \in Version :
         /\ release[v] # None
         /\ \E r \in Made(v) : draft' = [version |-> v, release |-> r, left |-> Asset]
         /\ touched' = IF pc = "idle" THEN touched ELSE touched \cup {v}
    /\ UNCHANGED <<release, latest, clock, call, seen, forwarded>>

ReplaceAsset ==
    /\ draft # None
    /\ \E a \in draft.left :
         /\ release' = [release EXCEPT ![draft.version][a] = draft.release[a]]
         /\ draft' = IF draft.left = {a} THEN None
                     ELSE [draft EXCEPT !.left = @ \ {a}]
    /\ UNCHANGED <<latest, published, clock, call, history>>

Tick ==
    /\ now < bound.time
    /\ now' = now + 1
    /\ UNCHANGED <<server, offset, call, history>>

-----------------------------------------------------------------------------
(* A request.                                                              *)

Begin ==
    /\ pc = "idle"
    /\ pc' = "manifest"
    /\ wanted' \in Version \cup {None}
    /\ url' = wanted'
    /\ named' = {wanted'} \ {None}
    /\ hops' = 0
    /\ seen' = {latest} \ {None}
    /\ touched' = IF draft = None THEN {} ELSE {draft.version}
    /\ forwarded' = FALSE
    /\ UNCHANGED <<server, clock, fetched>>

\* The next request asks for an asset of the release resolved.
Request(asset, v) ==
    /\ pc' = asset
    /\ url' = v
    /\ named' = {v}
    /\ hops' = 0

\* A bug: redirects are followed for as long as there are any.
RedirectForever ==
    /\ pc \in Requests
    /\ \E v \in Version \ {url} :
         /\ url = None => v = latest
         /\ url' = v
         /\ named' = named \cup {v}
         /\ forwarded' = (forwarded \/ url # None)
    /\ hops' = hops + 1
    /\ UNCHANGED <<server, clock, pc, wanted, fetched, seen, touched>>

\* `latest' leads to the release it is at that moment; any other URL may be
\* redirected to another release.
Redirect ==
    /\ pc \in Requests
    /\ hops < MaxRedirects
    /\ \E v \in Version \ {url} :
         /\ url = None => v = latest
         /\ url' = v
         /\ named' = named \cup {v}
         /\ forwarded' = (forwarded \/ url # None)
    /\ hops' = hops + 1
    /\ UNCHANGED <<server, clock, pc, wanted, fetched, seen, touched>>

Refuse == pc' = "refused" /\ UNCHANGED request

-----------------------------------------------------------------------------
(* fetch_latest_metadata, fetch_exact_metadata, download_archive and       *)
(* verify_metadata.                                                        *)

\* A bug: the redirect history is not looked at.
ResolvedAnyhow(v) == v = url

\* resolve_latest_response and fetch_version_metadata_response: the release
\* of a manifest is the one its whole redirect history names.
Resolved(v) == named = {v} /\ wanted \in {v, None}

GetManifest ==
    /\ pc = "manifest"
    /\ url # None
    /\ release[url] # None
    /\ \/ \E v \in Version :
            /\ Resolved(v)
            /\ version' = v
            /\ manifest' = release[url].manifest
            /\ Request("signature", v)
       \/ /\ \A v \in Version : ~Resolved(v)
          /\ Refuse
          /\ UNCHANGED <<version, manifest>>
    /\ UNCHANGED <<server, clock, wanted, envelope, archive, history>>

\* verify_manifest_with_keys.
SignedBy(m, e) == e.of = m /\ e.keys \cap Trusted # {}

\* ensure_not_expired, by the client's clock.
Expired(m) == now + offset > m.expires + Skew

\* A bug: the signature comes from whatever is latest by now.
GetLatestSignature ==
    /\ pc = "signature"
    /\ latest # None
    /\ release[latest] # None
    /\ envelope' = release[latest].signature
    /\ IF /\ SignedBy(manifest, envelope')
          /\ ~Expired(manifest)
          /\ manifest.version = version
       THEN Request("archive", version)
       ELSE Refuse
    /\ UNCHANGED <<server, clock, wanted, version, manifest, archive, history>>

\* fetch_verified_metadata.
GetSignature ==
    /\ pc = "signature"
    /\ release[url] # None
    /\ envelope' = release[url].signature
    /\ IF /\ named = {version}
          /\ SignedBy(manifest, envelope')
          /\ ~Expired(manifest)
          /\ manifest.version = version
       THEN Request("archive", version)
       ELSE Refuse
    /\ UNCHANGED <<server, clock, wanted, version, manifest, archive, history>>

\* A bug: the archive is not compared with the manifest.
GetArchiveUnchecked ==
    /\ pc = "archive"
    /\ release[url] # None
    /\ archive' = release[url].archive
    /\ IF named = {version}
       THEN pc' = "lock" /\ UNCHANGED request
       ELSE Refuse
    /\ UNCHANGED <<server, clock, wanted, version, manifest, envelope, history>>

\* download_archive.
GetArchive ==
    /\ pc = "archive"
    /\ release[url] # None
    /\ archive' = release[url].archive
    /\ IF named = {version} /\ archive' = manifest.archive
       THEN pc' = "lock" /\ UNCHANGED request
       ELSE Refuse
    /\ UNCHANGED <<server, clock, wanted, version, manifest, envelope, history>>

\* A bug: what was verified before the lock is not verified again.
VerifyNothing ==
    /\ pc = "lock"
    /\ pc' = "activated"
    /\ UNCHANGED <<server, clock, wanted, request, fetched, history>>

\* verify_metadata, when the lock has been granted.
VerifyMetadata ==
    /\ pc = "lock"
    /\ pc' = IF /\ manifest.version = version
                /\ SignedBy(manifest, envelope)
                /\ ~Expired(manifest)
             THEN "activated" ELSE "refused"
    /\ UNCHANGED <<server, clock, wanted, request, fetched, history>>

\* The call returns, or fails for a reason that has nothing to do with the
\* release: no such asset, the network, a timeout, too many redirects.
Return ==
    /\ pc # "idle"
    /\ pc' = "idle"
    /\ wanted' = None /\ url' = None /\ named' = {} /\ hops' = 0
    /\ version' = None /\ manifest' = None /\ envelope' = None /\ archive' = None
    /\ seen' = {} /\ touched' = {} /\ forwarded' = FALSE
    /\ UNCHANGED <<server, clock>>

Publisher == Publish \/ MoveLatest \/ BeginReplacing \/ ReplaceAsset

Client ==
    \/ Begin
    \/ Redirect
    \/ GetManifest
    \/ GetSignature
    \/ GetArchive
    \/ VerifyMetadata
    \/ Return

Next ==
    /\ Publisher \/ Tick \/ Client
    /\ UNCHANGED bound

Spec == Init /\ [][Next]_vars

-----------------------------------------------------------------------------
\* What is activated is one release as its publisher meant it, of the version
\* asked for, however its assets were replaced between the three requests.
OneRelease ==
    pc = "activated" =>
        /\ [manifest |-> manifest, signature |-> envelope, archive |-> archive]
             \in Made(version)
        /\ wanted \in {version, None}

\* An update installs a release that was the latest at some time during the
\* call, also while latest moves and releases are redirected.
LatestIsFresh == pc = "activated" /\ wanted = None => version \in seen

\* The validity window of what is activated was open when the lock was
\* granted, but for the skew allowed to the clock, however long the download
\* and the wait for the lock took.
ActivatedWhileValid ==
    [][pc # "activated" /\ pc' = "activated" =>
         now <= manifest.expires + 2 * Skew]_vars

\* A call is refused only for a cause: its release was being replaced, it was
\* sent to another release, no trusted key signed it, or it has really
\* expired.  That latest moves, or that the clock is a little ahead, is none.
RefusedForCause ==
    [][pc # "refused" /\ pc' = "refused" =>
         \/ forwarded
         \/ version \in touched
         \/ envelope'.keys \cap Trusted = {}
         \/ now > manifest.expires]_vars

=============================================================================
