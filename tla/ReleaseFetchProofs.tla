------------------------- MODULE ReleaseFetchProofs -------------------------
(***************************************************************************)
(* What a fetch of a release promises for every set of versions, archives, *)
(* keys and dates, every skew and every bound of the publisher: proofs.    *)
(***************************************************************************)
EXTENDS ReleaseFetch, TLAPS

-----------------------------------------------------------------------------
(* The inductive invariant.                                                *)

\* r is what the publisher meant by release v.
Meant(v, r) ==
    /\ r.manifest.version = v
    /\ r.signature.of = r.manifest
    /\ r.archive = r.manifest.archive

\* A release that is not being replaced is as it was meant; of one that is,
\* what has been uploaded is the new one's.  Every date is one the publisher
\* chose in this behaviour.
ServerOK ==
    /\ \A v \in Version : release[v] # None =>
         /\ release[v].manifest.expires \in bound.dates
         /\ draft = None \/ draft.version # v => Meant(v, release[v])
    /\ draft # None =>
         LET r == release[draft.version]
         IN  /\ r # None
             /\ Meant(draft.version, draft.release)
             /\ draft.release.manifest.expires \in bound.dates
             /\ "manifest"  \notin draft.left => r.manifest = draft.release.manifest
             /\ "signature" \notin draft.left => r.signature = draft.release.signature
             /\ "archive"   \notin draft.left => r.archive = draft.release.archive

\* The call has seen what happened at the server since it began.
Witnessed ==
    /\ latest # None => latest \in seen
    /\ draft # None => draft.version \in touched

\* A request that was not forwarded is at the release it was made for.
RequestOK ==
    /\ url = None => named = {} /\ pc = "manifest" /\ wanted = None
    /\ url # None => url \in named
    /\ ~forwarded => named = {url} \ {None}
    /\ pc = "manifest" /\ url # None =>
         IF wanted = None THEN named \cap seen # {} ELSE ~forwarded => url = wanted
    /\ pc \in {"signature", "archive"} => version \in Version /\ (~forwarded => url = version)

\* What has been fetched, and where the release it is of is replaced, that
\* the client has been able to see it.
FetchedOK ==
    /\ pc = "manifest" => version = None
    /\ pc \in {"signature", "archive", "lock", "activated"} =>
         /\ version \in Version /\ wanted \in {version, None}
         /\ wanted = None => version \in seen
         /\ manifest \in Manifest /\ manifest.expires \in bound.dates
    /\ pc \in {"archive", "lock", "activated"} =>
         /\ envelope \in Envelope /\ SignedBy(manifest, envelope)
         /\ manifest.version = version
    /\ pc \in {"lock", "activated"} => archive = manifest.archive
    /\ pc \in {"signature", "archive"} /\ version \notin touched =>
         release[version] # None /\ release[version].manifest = manifest

FetchInv ==
    /\ TypeOK
    /\ ServerOK
    /\ pc # "idle" => Witnessed /\ FetchedOK
    /\ pc \in Requests => RequestOK
    /\ pc = "idle" => version = None

-----------------------------------------------------------------------------
(* What the publisher makes.                                               *)

LEMMA MadeIsMeant ==
    ASSUME NEW v \in Version, NEW r \in Made(v)
    PROVE  r \in Release /\ Meant(v, r) /\ r.manifest.expires \in bound.dates
<1>1. PICK m \in Manifest, k \in SUBSET Key \ {{}} :
        /\ m.version = v /\ m.expires \in bound.dates
        /\ r = [manifest |-> m, signature |-> [of |-> m, keys |-> k], archive |-> m.archive]
  BY DEF Made
<1>2. m.archive \in Archive /\ [of |-> m, keys |-> k] \in Envelope
  BY DEF Manifest, Envelope
<1> QED BY <1>1, <1>2 DEF Release, Meant

LEMMA MeantIsMade ==
    ASSUME NEW v \in Version, NEW m \in Manifest, NEW e \in Envelope, NEW a,
           m.version = v, m.expires \in bound.dates, e.of = m, a = m.archive
    PROVE  [manifest |-> m, signature |-> e, archive |-> a] \in Made(v)
<1>1. PICK k \in SUBSET Key \ {{}} : e = [of |-> m, keys |-> k]
  BY DEF Envelope
<1>2. [manifest |-> m, signature |-> [of |-> m, keys |-> k], archive |-> m.archive] \in Made(v)
  BY DEF Made
<1>3. [manifest |-> m, signature |-> [of |-> m, keys |-> k], archive |-> m.archive]
        = [manifest |-> m, signature |-> e, archive |-> a]
  BY <1>1
<1> QED BY <1>2, <1>3

\* One asset of a release is replaced.
LEMMA OneAsset ==
    ASSUME NEW v \in Version, NEW a \in Asset, NEW d \in Release,
           release \in [Version -> Release \cup {None}], release[v] # None,
           release' = [release EXCEPT ![v][a] = d[a]]
    PROVE  /\ release' \in [Version -> Release \cup {None}] /\ release'[v] \in Release
           /\ release'[v].manifest = IF a = "manifest" THEN d.manifest ELSE release[v].manifest
           /\ release'[v].signature = IF a = "signature" THEN d.signature ELSE release[v].signature
           /\ release'[v].archive = IF a = "archive" THEN d.archive ELSE release[v].archive
           /\ \A w \in Version : w # v => release'[w] = release[w]
<1>1. release[v] \in Release
  OBVIOUS
<1>2. \A w \in Version : w # v => release'[w] = release[w]
  OBVIOUS
<1>3. CASE a = "manifest"
  BY <1>1, <1>3 DEF Release
<1>4. CASE a = "signature"
  BY <1>1, <1>4 DEF Release
<1>5. CASE a = "archive"
  BY <1>1, <1>5 DEF Release
<1> QED BY <1>3, <1>4, <1>5 DEF Asset
-----------------------------------------------------------------------------
(* The publisher's steps.                                                  *)

ServerTypes ==
    /\ release \in [Version -> Release \cup {None}]
    /\ latest \in Version \cup {None}
    /\ draft \in Draft \cup {None}
    /\ published \in 0..bound.published
    /\ bound \in Bounds

CallTypes ==
    /\ now \in 0..bound.time /\ offset \in -Skew..Skew
    /\ pc \in Requests \cup {"idle", "lock", "activated", "refused"}
    /\ wanted \in Version \cup {None} /\ url \in Version \cup {None}
    /\ version \in Version \cup {None}
    /\ named \subseteq Version
    /\ hops \in 0..MaxRedirects
    /\ manifest \in Manifest \cup {None}
    /\ envelope \in Envelope \cup {None}
    /\ archive \in Archive \cup {None}
    /\ seen \subseteq Version /\ touched \subseteq Version
    /\ forwarded \in BOOLEAN

CallOK ==
    /\ CallTypes
    /\ pc # "idle" => Witnessed /\ FetchedOK
    /\ pc \in Requests => RequestOK
    /\ pc = "idle" => version = None

LEMMA Parts == FetchInv <=> ServerTypes /\ ServerOK /\ CallOK
BY DEF FetchInv, TypeOK, ServerTypes, CallTypes, CallOK

LEMMA PartsNext == ServerTypes' /\ ServerOK' /\ CallOK' => FetchInv'
BY Parts, PTL

LEMMA BoundTypes ==
    ASSUME ServerTypes
    PROVE  bound.published \in Nat /\ bound.time \in Nat /\ bound.dates \subseteq Date
BY TimeAssumption DEF TimeAssumption, ServerTypes

\* A call in which the publisher replaces nothing but what it has touched.
LEMMA CallKept ==
    ASSUME CallOK, UNCHANGED <<bound, clock, call, forwarded>>, seen \subseteq seen', touched \subseteq touched',
           seen' \subseteq Version, touched' \subseteq Version,
           pc # "idle" => Witnessed',
           \A v \in Version : v \notin touched /\ release[v] # None =>
               release'[v] # None /\ release'[v].manifest = release[v].manifest
    PROVE  CallOK'
<1>1. UNCHANGED <<now, offset, pc, wanted, url, named, hops, version, manifest, envelope, archive>>
  BY DEF clock, call, request, fetched
<1>2. CallTypes'
  BY <1>1 DEF CallOK, CallTypes
<1>3. ASSUME pc # "idle" PROVE FetchedOK'
  BY <1>1, <1>3 DEF CallOK, FetchedOK, SignedBy
<1>4. ASSUME pc \in Requests PROVE RequestOK'
  BY <1>1, <1>4 DEF CallOK, RequestOK
<1> QED BY <1>1, <1>2, <1>3, <1>4 DEF CallOK

LEMMA PublisherStep ==
    ASSUME FetchInv, Publisher, UNCHANGED bound
    PROVE  FetchInv'
<1>0. /\ ServerTypes /\ CallTypes /\ ServerOK /\ CallOK
      /\ (pc # "idle" => Witnessed /\ FetchedOK) /\ (pc \in Requests => RequestOK)
  BY Parts DEF CallOK
<1>1. CASE Publish
  <2>1. PICK v \in Version : release[v] = None /\ \E r \in Made(v) : release' = [release EXCEPT ![v] = r]
    BY <1>1 DEF Publish
  <2>2. PICK r \in Made(v) : release' = [release EXCEPT ![v] = r]
    BY <2>1
  <2>3. r \in Release /\ Meant(v, r) /\ r.manifest.expires \in bound.dates
    BY MadeIsMeant
  <2>4. UNCHANGED <<latest, draft, clock, call, history>> /\ published' \in 0..bound.published
    BY <1>0, <1>1, BoundTypes DEF Publish, ServerTypes
  <2>5. release'[v] = r /\ \A w \in Version : w # v => release'[w] = release[w]
    BY <1>0, <2>2 DEF ServerTypes
  <2>6. ServerTypes'
    BY <1>0, <2>2, <2>3, <2>4 DEF ServerTypes
  <2>7. ServerOK'
    <3>1. draft # None => draft.version \in Version /\ draft.version # v
      BY <1>0, <2>1 DEF ServerOK, ServerTypes, Draft
    <3> QED BY <1>0, <2>3, <2>4, <2>5, <3>1 DEF ServerOK, Meant
  <2>8. CallOK'
    <3>1. pc # "idle" => Witnessed'
      BY <1>0, <2>4 DEF Witnessed, history
    <3>2. UNCHANGED <<seen, touched, forwarded>> /\ seen \subseteq Version /\ touched \subseteq Version
      BY <1>0, <2>4 DEF history, CallTypes
    <3>3. \A w \in Version : w \notin touched /\ release[w] # None =>
               release'[w] # None /\ release'[w].manifest = release[w].manifest
      BY <2>1, <2>5
    <3> QED BY <1>0, <2>4, <3>1, <3>2, <3>3, CallKept
  <2> QED BY <2>6, <2>7, <2>8, PartsNext DEF CallOK, Requests
<1>2. CASE MoveLatest
  <2>1. /\ latest' \in Version /\ seen \subseteq seen' /\ seen' \subseteq Version
        /\ pc # "idle" => latest' \in seen'
        /\ UNCHANGED <<release, draft, published, clock, call, touched, forwarded>>
    BY <1>0, <1>2 DEF MoveLatest, CallTypes
  <2>2. ServerTypes' /\ ServerOK'
    BY <1>0, <2>1 DEF ServerTypes, ServerOK
  <2>3. CallOK'
    <3>1. pc # "idle" => Witnessed'
      BY <1>0, <2>1 DEF Witnessed
    <3>2. touched \subseteq Version
      BY <1>0 DEF CallTypes
    <3> QED BY <1>0, <2>1, <3>1, <3>2, CallKept
  <2> QED BY <2>2, <2>3, PartsNext DEF CallOK, Requests
<1>3. CASE BeginReplacing
  <2>1. PICK v \in Version :
          /\ release[v] # None
          /\ \E r \in Made(v) : draft' = [version |-> v, release |-> r, left |-> Asset]
          /\ touched' = IF pc = "idle" THEN touched ELSE touched \cup {v}
    BY <1>3 DEF BeginReplacing
  <2>2. PICK r \in Made(v) : draft' = [version |-> v, release |-> r, left |-> Asset]
    BY <2>1
  <2>3. r \in Release /\ Meant(v, r) /\ r.manifest.expires \in bound.dates
    BY MadeIsMeant
  <2>4. /\ draft = None /\ UNCHANGED <<release, latest, clock, call, seen, forwarded>>
        /\ published' \in 0..bound.published
    BY <1>0, <1>3, BoundTypes DEF BeginReplacing, ServerTypes
  <2>5. draft' \in Draft /\ draft'.version = v /\ draft'.release = r /\ draft'.left = Asset
    BY <2>2, <2>3 DEF Draft
  <2>6. ServerTypes'
    BY <1>0, <2>4, <2>5 DEF ServerTypes
  <2>7. ServerOK'
    BY <1>0, <2>1, <2>3, <2>4, <2>5 DEF ServerOK, Asset
  <2>8. CallOK'
    <3>1. pc # "idle" => Witnessed'
      BY <1>0, <2>1, <2>4, <2>5 DEF Witnessed
    <3>2. touched \subseteq touched' /\ touched' \subseteq Version /\ seen \subseteq Version
      BY <1>0, <2>1 DEF CallTypes
    <3> QED BY <1>0, <2>4, <3>1, <3>2, CallKept
  <2> QED BY <2>6, <2>7, <2>8, PartsNext DEF CallOK, Requests
<1>4. CASE ReplaceAsset
  <2>0. draft # None /\ draft \in Draft /\ UNCHANGED <<latest, published, clock, call, history>>
    BY <1>0, <1>4 DEF ReplaceAsset, ServerTypes
  <2>1. PICK a \in draft.left :
          /\ release' = [release EXCEPT ![draft.version][a] = draft.release[a]]
          /\ draft' = IF draft.left = {a} THEN None ELSE [draft EXCEPT !.left = @ \ {a}]
    BY <1>4 DEF ReplaceAsset
  <2>2. PICK v \in Version, d \in Release : v = draft.version /\ d = draft.release
    BY <2>0 DEF Draft
  <2>3. /\ a \in Asset /\ draft.left \subseteq Asset /\ release[v] # None
        /\ Meant(v, d) /\ d.manifest.expires \in bound.dates
        /\ "manifest"  \notin draft.left => release[v].manifest = d.manifest
        /\ "signature" \notin draft.left => release[v].signature = d.signature
        /\ "archive"   \notin draft.left => release[v].archive = d.archive
    BY <1>0, <2>0, <2>1, <2>2 DEF Draft, ServerOK
  <2>4. /\ release' \in [Version -> Release \cup {None}] /\ release'[v] \in Release
        /\ release'[v].manifest = IF a = "manifest" THEN d.manifest ELSE release[v].manifest
        /\ release'[v].signature = IF a = "signature" THEN d.signature ELSE release[v].signature
        /\ release'[v].archive = IF a = "archive" THEN d.archive ELSE release[v].archive
        /\ \A w \in Version : w # v => release'[w] = release[w]
    <3>1. release' = [release EXCEPT ![v][a] = d[a]]
      BY <2>1, <2>2
    <3>2. release \in [Version -> Release \cup {None}]
      BY <1>0 DEF ServerTypes
    <3> QED BY <2>3, <3>1, <3>2, OneAsset
  <2>5. release'[v] # None
    BY <2>4, NoneAssumption DEF NoneAssumption
  <2>6. ASSUME draft' # None
        PROVE  /\ draft' \in Draft /\ draft'.version = v /\ draft'.release = d
               /\ draft'.left = draft.left \ {a}
    <3>1. draft' = [draft EXCEPT !.left = @ \ {a}]
      BY <2>1, <2>6
    <3> QED BY <2>0, <2>2, <2>3, <3>1 DEF Draft
  <2>7. ServerTypes'
    BY <1>0, <2>0, <2>4, <2>6 DEF ServerTypes
  <2>8. ServerOK'
    <3>1. release'[v].manifest.expires \in bound.dates
      BY <1>0, <2>3, <2>4 DEF ServerOK
    <3>2. CASE draft' = None
      <4>1. draft.left = {a}
        <5>1. draft.left # {a} => draft' \in Draft
          <6>1. draft.left # {a} => draft' = [draft EXCEPT !.left = @ \ {a}]
            BY <2>1
          <6> QED BY <2>0, <6>1 DEF Draft
        <5> QED BY <3>2, <5>1, NoneAssumption DEF NoneAssumption
      <4>2. Meant(v, release'[v])
        BY <2>3, <2>4, <4>1 DEF Meant, Asset
      <4>3. \A w \in Version : w # v /\ release[w] # None => Meant(w, release[w])
        BY <1>0, <2>2 DEF ServerOK
      <4> QED BY <1>0, <2>0, <2>4, <3>1, <3>2, <4>2, <4>3 DEF ServerOK
    <3>3. CASE draft' # None
      <4>1. /\ "manifest"  \notin draft'.left => release'[v].manifest = d.manifest
            /\ "signature" \notin draft'.left => release'[v].signature = d.signature
            /\ "archive"   \notin draft'.left => release'[v].archive = d.archive
        BY <2>3, <2>4, <2>6, <3>3
      <4>2. \A w \in Version : w # v /\ release[w] # None => Meant(w, release[w])
        BY <1>0, <2>2 DEF ServerOK
      <4> QED BY <1>0, <2>3, <2>4, <2>5, <2>6, <3>1, <3>3, <4>1, <4>2 DEF ServerOK
    <3> QED BY <3>2, <3>3
  <2>9. CallOK'
    <3>1. pc # "idle" => Witnessed' /\ v \in touched
      BY <1>0, <2>0, <2>2, <2>6 DEF Witnessed, history
    <3>2. UNCHANGED <<seen, touched, forwarded>> /\ seen \subseteq Version /\ touched \subseteq Version
      BY <1>0, <2>0 DEF history, CallTypes
    <3>3. CASE pc = "idle"
      <4>1. UNCHANGED <<now, offset, pc, wanted, url, named, hops, version, manifest, envelope, archive>>
        BY <2>0 DEF clock, call, request, fetched
      <4>2. CallTypes'
        BY <1>0, <3>2, <4>1 DEF CallTypes
      <4> QED BY <1>0, <3>3, <4>1, <4>2 DEF CallOK, Requests
    <3>4. CASE pc # "idle"
      <4>1. \A w \in Version : w \notin touched /\ release[w] # None =>
               release'[w] # None /\ release'[w].manifest = release[w].manifest
        BY <2>4, <3>1, <3>4
      <4> QED BY <1>0, <2>0, <3>1, <3>2, <4>1, CallKept
    <3> QED BY <3>3, <3>4
  <2> QED BY <2>7, <2>8, <2>9, PartsNext DEF CallOK, Requests
<1> QED BY <1>1, <1>2, <1>3, <1>4 DEF Publisher
-----------------------------------------------------------------------------
(* The client's steps.                                                     *)

LEMMA ServerKept ==
    ASSUME ServerTypes, ServerOK, UNCHANGED <<bound, server>>
    PROVE  ServerTypes' /\ ServerOK'
BY DEF server, ServerTypes, ServerOK

LEMMA ClientStep ==
    ASSUME FetchInv, Client, UNCHANGED bound
    PROVE  FetchInv'
<1>0. /\ ServerTypes /\ CallTypes /\ ServerOK /\ Skew \in Nat /\ MaxRedirects \in Nat
      /\ (pc # "idle" => Witnessed /\ FetchedOK) /\ (pc \in Requests => RequestOK) /\ CallOK
  BY Parts, TimeAssumption DEF CallOK, TimeAssumption
<1>1. UNCHANGED <<server, clock>>
  BY DEF Client, Begin, Redirect, GetManifest, GetSignature, GetArchive, VerifyMetadata, Return
<1>2. ServerTypes' /\ ServerOK'
  BY <1>0, <1>1, ServerKept
<1>3. UNCHANGED <<release, latest, draft, published, now, offset, bound>>
  BY <1>1 DEF server, clock
<1>n. None \notin Version /\ None \notin Release
  BY NoneAssumption DEF NoneAssumption
<1>4. CASE Begin
  <2>1. /\ pc' = "manifest" /\ wanted' \in Version \cup {None} /\ url' = wanted'
        /\ named' = {wanted'} \ {None} /\ hops' = 0
        /\ seen' = {latest} \ {None}
        /\ touched' = IF draft = None THEN {} ELSE {draft.version}
        /\ forwarded' = FALSE
        /\ UNCHANGED <<version, manifest, envelope, archive>>
    BY <1>4 DEF Begin, fetched
  <2>2. pc = "idle" /\ version = None
    BY <1>0, <1>4 DEF Begin, CallOK
  <2>3. CallTypes'
    <3>1. seen' \subseteq Version
      BY <1>0, <2>1 DEF ServerTypes
    <3>2. touched' \subseteq Version
      BY <1>0, <2>1 DEF ServerTypes, Draft
    <3>3. named' \subseteq Version /\ hops' \in 0..MaxRedirects
      BY <1>0, <2>1
    <3>4. /\ pc' \in Requests /\ url' \in Version \cup {None} /\ wanted' \in Version \cup {None}
          /\ forwarded' \in BOOLEAN
      BY <2>1 DEF Requests
    <3> QED BY <1>0, <1>3, <2>1, <3>1, <3>2, <3>3, <3>4 DEF CallTypes
  <2>4. Witnessed'
    BY <1>0, <1>3, <2>1 DEF Witnessed, ServerTypes, Draft
  <2>5. FetchedOK'
    BY <2>1, <2>2 DEF FetchedOK
  <2>6. RequestOK'
    BY <1>n, <2>1 DEF RequestOK
  <2> QED BY <1>2, <2>1, <2>3, <2>4, <2>5, <2>6, PartsNext DEF CallOK, Requests
<1>5. CASE Redirect
  <2>1. /\ pc \in Requests /\ hops < MaxRedirects /\ hops' = hops + 1
        /\ UNCHANGED <<pc, wanted, version, manifest, envelope, archive, seen, touched>>
    BY <1>5 DEF Redirect, fetched
  <2>2. PICK v \in Version : /\ url = None => v = latest
                             /\ url' = v
                             /\ named' = named \cup {v}
                             /\ forwarded' = (forwarded \/ url # None)
    BY <1>5 DEF Redirect
  <2>3. CallTypes'
    <3>1. hops' \in 0..MaxRedirects /\ forwarded' \in BOOLEAN
      BY <1>0, <2>1, <2>2 DEF CallTypes
    <3> QED BY <1>0, <1>3, <2>1, <2>2, <3>1 DEF CallTypes
  <2>4. Witnessed' /\ FetchedOK'
    BY <1>0, <1>3, <2>1 DEF Witnessed, FetchedOK, SignedBy, Requests
  <2>5. RequestOK'
    <3>1. Witnessed /\ RequestOK
      BY <1>0, <2>1 DEF Requests
    <3>2. CASE url = None
      <4>1. named = {} /\ pc = "manifest" /\ wanted = None /\ v = latest
        BY <2>2, <3>1, <3>2 DEF RequestOK
      <4>2. v # None
        BY <1>n
      <4>3. v \in seen
        BY <3>1, <4>1, <4>2 DEF Witnessed
      <4>4. named' = {v}
        BY <2>2, <4>1
      <4>5. forwarded' = forwarded
        BY <1>0, <2>2, <3>2 DEF CallTypes
      <4> QED BY <1>n, <2>1, <2>2, <4>1, <4>3, <4>4, <4>5 DEF RequestOK
    <3>3. CASE url # None
      <4>1. forwarded'
        BY <2>2, <3>3
      <4> QED BY <1>n, <2>1, <2>2, <3>1, <3>3, <4>1 DEF RequestOK
    <3> QED BY <3>2, <3>3
  <2> QED BY <1>2, <2>1, <2>3, <2>4, <2>5, PartsNext DEF CallOK, Requests
<1>6. CASE GetManifest
  <2>0. /\ pc = "manifest" /\ url # None /\ release[url] # None
        /\ UNCHANGED <<wanted, envelope, archive, seen, touched, forwarded>>
        /\ Witnessed /\ FetchedOK /\ RequestOK
    BY <1>0, <1>6 DEF GetManifest, history, Requests
  <2>1. url \in Version /\ release[url] \in Release
    BY <1>0, <2>0 DEF CallTypes, ServerTypes
  <2>2. CASE pc' = "refused"
    <3>1. UNCHANGED <<url, named, hops, version, manifest>>
      BY <1>6, <2>2 DEF GetManifest, Refuse, Request, request
    <3>2. CallTypes'
      BY <1>0, <1>3, <2>0, <2>2, <3>1 DEF CallTypes
    <3>3. Witnessed' /\ FetchedOK'
      BY <1>3, <2>0, <2>2 DEF Witnessed, FetchedOK
    <3> QED BY <1>2, <2>2, <3>2, <3>3, PartsNext DEF CallOK, Requests
  <2>3. CASE pc' # "refused"
    <3>1. PICK v \in Version : /\ Resolved(v) /\ version' = v /\ manifest' = release[url].manifest
                               /\ pc' = "signature" /\ url' = v /\ named' = {v} /\ hops' = 0
      BY <1>6, <2>3 DEF GetManifest, Refuse, Request
    <3>2. named = {v} /\ wanted \in {v, None}
      BY <3>1 DEF Resolved
    <3>3. v = url
      BY <2>0, <3>2 DEF RequestOK
    <3>4. manifest' \in Manifest /\ manifest'.expires \in bound.dates
      BY <1>0, <2>0, <2>1, <3>1 DEF Release, ServerOK
    <3>5. CallTypes'
      BY <1>0, <1>3, <2>0, <3>1, <3>4 DEF CallTypes, Requests
    <3>6. wanted = None => v \in seen
      BY <2>0, <3>2 DEF RequestOK
    <3>7. Witnessed' /\ FetchedOK'
      BY <1>3, <2>0, <3>1, <3>2, <3>3, <3>4, <3>6 DEF Witnessed, FetchedOK
    <3>8. RequestOK'
      BY <1>n, <3>1 DEF RequestOK
    <3> QED BY <1>2, <3>1, <3>5, <3>7, <3>8, PartsNext DEF CallOK, Requests
  <2> QED BY <2>2, <2>3
<1>7. CASE GetSignature
  <2>0. /\ pc = "signature" /\ release[url] # None /\ envelope' = release[url].signature
        /\ UNCHANGED <<wanted, version, manifest, archive, seen, touched, forwarded>>
        /\ Witnessed /\ FetchedOK /\ RequestOK
    BY <1>0, <1>7 DEF GetSignature, history, Requests
  <2>1. url \in Version
    BY <1>0, <2>0 DEF CallTypes, RequestOK
  <2>2. envelope' \in Envelope
    <3>1. release[url] \in Release
      BY <1>0, <2>0, <2>1 DEF ServerTypes
    <3> QED BY <2>0, <3>1 DEF Release
  <2>3. CASE pc' = "refused"
    <3>1. UNCHANGED <<url, named, hops>>
      BY <1>7, <2>3 DEF GetSignature, Refuse, Request, request
    <3>2. CallTypes'
      BY <1>0, <1>3, <2>0, <2>2, <2>3, <3>1 DEF CallTypes
    <3>3. Witnessed' /\ FetchedOK'
      BY <1>3, <2>0, <2>3 DEF Witnessed, FetchedOK
    <3> QED BY <1>2, <2>3, <3>2, <3>3, PartsNext DEF CallOK, Requests
  <2>4. CASE pc' # "refused"
    <3>1. /\ SignedBy(manifest, envelope') /\ manifest.version = version
          /\ pc' = "archive" /\ url' = version /\ named' = {version} /\ hops' = 0
      BY <1>7, <2>4 DEF GetSignature, Refuse, Request
    <3>2. version \in Version
      BY <2>0 DEF FetchedOK
    <3>3. CallTypes'
      BY <1>0, <1>3, <2>0, <2>2, <3>1, <3>2 DEF CallTypes, Requests
    <3>4. Witnessed'
      BY <1>3, <2>0 DEF Witnessed
    <3>5. FetchedOK'
      BY <1>3, <2>0, <2>2, <3>1 DEF FetchedOK, SignedBy
    <3>6. RequestOK'
      BY <1>n, <2>0, <3>1, <3>2 DEF RequestOK
    <3> QED BY <1>2, <3>1, <3>3, <3>4, <3>5, <3>6, PartsNext DEF CallOK, Requests
  <2> QED BY <2>3, <2>4
<1>8. CASE GetArchive
  <2>0. /\ pc = "archive" /\ release[url] # None /\ archive' = release[url].archive
        /\ pc' = "refused" \/ (pc' = "lock" /\ archive' = manifest.archive)
        /\ UNCHANGED <<wanted, url, named, hops, version, manifest, envelope, seen, touched, forwarded>>
        /\ Witnessed /\ FetchedOK /\ RequestOK
    BY <1>0, <1>8 DEF GetArchive, Refuse, request, history, Requests
  <2>1. url \in Version
    BY <1>0, <2>0 DEF CallTypes, RequestOK
  <2>2. archive' \in Archive
    <3>1. release[url] \in Release
      BY <1>0, <2>0, <2>1 DEF ServerTypes
    <3> QED BY <2>0, <3>1 DEF Release
  <2>3. CallTypes'
    BY <1>0, <1>3, <2>0, <2>2 DEF CallTypes
  <2>4. Witnessed'
    BY <1>3, <2>0 DEF Witnessed
  <2>5. FetchedOK'
    BY <1>3, <2>0 DEF FetchedOK, SignedBy
  <2> QED BY <1>2, <2>0, <2>3, <2>4, <2>5, PartsNext DEF CallOK, Requests
<1>9. CASE VerifyMetadata
  <2>0. /\ pc = "lock" /\ pc' \in {"activated", "refused"}
        /\ UNCHANGED <<wanted, url, named, hops, version, manifest, envelope, archive,
                       seen, touched, forwarded>>
        /\ Witnessed /\ FetchedOK
    BY <1>0, <1>9 DEF VerifyMetadata, request, fetched, history
  <2>1. CallTypes'
    BY <1>0, <1>3, <2>0 DEF CallTypes
  <2>2. Witnessed' /\ FetchedOK'
    BY <1>3, <2>0 DEF Witnessed, FetchedOK, SignedBy
  <2> QED BY <1>2, <2>0, <2>1, <2>2, PartsNext DEF CallOK, Requests
<1>10. CASE Return
  <2>1. /\ pc' = "idle" /\ wanted' = None /\ url' = None /\ named' = {} /\ hops' = 0
        /\ version' = None /\ manifest' = None /\ envelope' = None /\ archive' = None
        /\ seen' = {} /\ touched' = {} /\ forwarded' = FALSE
    BY <1>10 DEF Return
  <2>2. 0 \in 0..MaxRedirects
    BY <1>0
  <2>3. CallTypes'
    BY <1>0, <1>3, <2>1, <2>2 DEF CallTypes
  <2> QED BY <1>2, <2>1, <2>3, PartsNext DEF CallOK, Requests
<1> QED BY <1>4, <1>5, <1>6, <1>7, <1>8, <1>9, <1>10 DEF Client

-----------------------------------------------------------------------------
(* The invariant of the specification.                                     *)

LEMMA InitInvariant == Init => FetchInv
<1> SUFFICES ASSUME Init PROVE FetchInv
  OBVIOUS
<1>1. /\ bound.published \in Nat /\ bound.time \in Nat /\ MaxRedirects \in Nat /\ Skew \in Nat
  BY TimeAssumption DEF TimeAssumption, Init
<1>2. TypeOK
  <2>1. 0 \in 0..bound.published /\ 0 \in 0..bound.time /\ 0 \in 0..MaxRedirects
    BY <1>1
  <2>2. release \in [Version -> Release \cup {None}]
    BY DEF Init
  <2> QED BY <2>1, <2>2 DEF Init, TypeOK
<1>3. ServerOK
  BY DEF Init, ServerOK
<1> QED BY <1>2, <1>3 DEF Init, FetchInv, Requests

LEMMA TickStep ==
    ASSUME FetchInv, Tick, UNCHANGED bound
    PROVE  FetchInv'
<1>0. ServerTypes /\ ServerOK /\ CallOK /\ bound.time \in Nat
  BY Parts, BoundTypes
<1>1. UNCHANGED <<server, bound, offset, pc, wanted, url, named, hops, version, manifest, envelope,
                  archive, seen, touched, forwarded, latest, draft, release>>
  BY DEF Tick, server, call, request, fetched, history
<1>2. ServerTypes' /\ ServerOK'
  BY <1>0, <1>1, ServerKept
<1>3. now' \in 0..bound.time
  BY <1>0 DEF Tick, CallOK, CallTypes
<1>4. CallTypes'
  BY <1>0, <1>1, <1>3 DEF CallOK, CallTypes
<1>5. pc # "idle" => Witnessed' /\ FetchedOK'
  BY <1>0, <1>1 DEF CallOK, Witnessed, FetchedOK, SignedBy
<1>6. pc \in Requests => RequestOK'
  BY <1>0, <1>1 DEF CallOK, RequestOK
<1>7. pc = "idle" => version' = None
  BY <1>0, <1>1 DEF CallOK
<1>8. CallOK'
  BY <1>1, <1>4, <1>5, <1>6, <1>7 DEF CallOK
<1> QED BY <1>2, <1>8, PartsNext

LEMMA StutterStep ==
    ASSUME FetchInv, UNCHANGED vars
    PROVE  FetchInv'
<1>0. ServerTypes /\ ServerOK /\ CallOK
  BY Parts
<1>1. UNCHANGED <<server, bound, clock, call, latest, draft, release, seen, touched, forwarded>>
  BY DEF vars, server, history
<1>2. ServerTypes' /\ ServerOK'
  BY <1>0, <1>1, ServerKept
<1>3. pc # "idle" => Witnessed'
  BY <1>0, <1>1 DEF CallOK, Witnessed
<1>4. seen \subseteq Version /\ touched \subseteq Version
  BY <1>0 DEF CallOK, CallTypes
<1>5. CallOK'
  BY <1>0, <1>1, <1>3, <1>4, CallKept
<1> QED BY <1>2, <1>5, PartsNext

LEMMA NextInvariant == FetchInv /\ [Next]_vars => FetchInv'
<1> SUFFICES ASSUME FetchInv, [Next]_vars PROVE FetchInv'
  OBVIOUS
<1>1. CASE UNCHANGED vars
  BY <1>1, StutterStep
<1>2. CASE Next
  BY <1>2, PublisherStep, TickStep, ClientStep DEF Next
<1> QED BY <1>1, <1>2

\* However the publisher moves latest and replaces assets between the three
\* requests of download.rs, what the client has fetched is of the release it
\* resolved, and where that release is as published its assets fit together.
THEOREM FetchInvariant == Spec => []FetchInv
BY InitInvariant, NextInvariant, PTL DEF Spec

\* The state of the server and of the call of download.rs keeps its type.
THEOREM FetchTypes == Spec => []TypeOK
<1>1. FetchInv => TypeOK
  BY DEF FetchInv
<1> QED BY <1>1, FetchInvariant, PTL

\* What verify_metadata lets through is one release as its publisher meant it,
\* of the version asked for: no mixture of two uploads is activated.
THEOREM OneReleaseIsActivated == Spec => []OneRelease
<1>1. FetchInv => OneRelease
  <2> SUFFICES ASSUME FetchInv, pc = "activated"
               PROVE  /\ [manifest |-> manifest, signature |-> envelope, archive |-> archive]
                            \in Made(version)
                      /\ wanted \in {version, None}
    BY DEF OneRelease
  <2>1. FetchedOK
    BY DEF FetchInv
  <2>2. /\ version \in Version /\ manifest \in Manifest /\ envelope \in Envelope
        /\ manifest.version = version /\ manifest.expires \in bound.dates
        /\ envelope.of = manifest /\ archive = manifest.archive
        /\ wanted \in {version, None}
    BY <2>1 DEF FetchedOK, SignedBy
  <2> QED BY <2>2, MeantIsMade
<1> QED BY <1>1, FetchInvariant, PTL

\* The release that resolve_latest_response names was the latest at some time
\* of the call, however often latest moved and requests were redirected.
THEOREM LatestWasLatest == Spec => []LatestIsFresh
<1>1. FetchInv => LatestIsFresh
  BY DEF FetchInv, FetchedOK, LatestIsFresh
<1> QED BY <1>1, FetchInvariant, PTL

-----------------------------------------------------------------------------
(* What a step may not do.                                                 *)

\* Manifests that a call holds have dates, and dates are numbers.
LEMMA Times ==
    ASSUME FetchInv, pc \in {"signature", "archive", "lock"}
    PROVE  /\ now \in Nat /\ offset \in Int /\ Skew \in Nat /\ manifest.expires \in Nat
           /\ -Skew <= offset /\ offset <= Skew
<1>1. manifest \in Manifest
  BY DEF FetchInv, FetchedOK
<1>2. manifest.expires \in Nat
  BY <1>1, TimeAssumption DEF TimeAssumption, Manifest
<1>3. Skew \in Nat /\ bound.time \in Nat
  BY BoundTypes, Parts, TimeAssumption DEF TimeAssumption
<1> QED BY <1>2, <1>3 DEF FetchInv, TypeOK

\* verify_metadata under the lock lets nothing through whose validity was over
\* by more than twice EXPIRY_CLOCK_SKEW, however long the call waited.
THEOREM ActivationIsInTime == Spec => ActivatedWhileValid
<1>1. ASSUME FetchInv, Next, pc # "activated", pc' = "activated"
      PROVE  now <= manifest.expires + 2 * Skew
  <2>1. VerifyMetadata
    BY <1>1 DEF Next, Publisher, Publish, MoveLatest, BeginReplacing, ReplaceAsset, Tick, Client, Begin,
                Redirect, GetManifest, GetSignature, GetArchive, Return, Request, Refuse, call
  <2>2. ~Expired(manifest) /\ pc = "lock"
    BY <1>1, <2>1 DEF VerifyMetadata
  <2>3. ~(now + offset > manifest.expires + Skew)
    BY <2>2 DEF Expired
  <2> QED BY <1>1, <2>2, <2>3, Times
<1>2. FetchInv /\ [Next]_vars =>
        [pc # "activated" /\ pc' = "activated" => now <= manifest.expires + 2 * Skew]_vars
  BY <1>1
<1> QED BY <1>2, FetchInvariant, PTL DEF Spec, ActivatedWhileValid

\* A step that refuses.
Refusal == pc # "refused" /\ pc' = "refused"

\* What a call refuses although nothing happened to its release is expired.
LEMMA RefusalOfMeant ==
    ASSUME FetchInv, pc \in {"signature", "archive"}, ~forwarded, version \notin touched
    PROVE  /\ url = version /\ named = {version} /\ version \in Version /\ release[version] # None
           /\ release[version].manifest = manifest
           /\ Meant(version, release[version])
<1>1. Witnessed /\ FetchedOK /\ RequestOK /\ ServerOK
  BY DEF FetchInv, Requests
<1>2. url = version /\ version \in Version /\ version # None
  BY <1>1, NoneAssumption DEF RequestOK, NoneAssumption
<1>3. named = {version}
  BY <1>1, <1>2 DEF RequestOK
<1>4. release[version] # None /\ release[version].manifest = manifest
  BY <1>1 DEF FetchedOK
<1>5. draft = None \/ draft.version # version
  BY <1>1 DEF Witnessed
<1>6. Meant(version, release[version])
  BY <1>1, <1>2, <1>4, <1>5 DEF ServerOK
<1> QED BY <1>2, <1>3, <1>4, <1>6

\* resolve_latest_response, fetch_verified_metadata, download_archive and
\* verify_metadata refuse a call only where its release was being replaced, a
\* redirect left it, no trusted key signed it, or it has expired.
THEOREM RefusalHasCause == Spec => RefusedForCause
<1> DEFINE Cause == \/ forwarded
                    \/ version \in touched
                    \/ envelope'.keys \cap Trusted = {}
                    \/ now > manifest.expires
<1>1. ASSUME FetchInv, Refusal, GetManifest PROVE Cause
  <2> SUFFICES ASSUME ~forwarded PROVE FALSE
    OBVIOUS
  <2>1. pc = "manifest" /\ url # None /\ RequestOK /\ FetchInv
    BY <1>1 DEF GetManifest, FetchInv, Requests
  <2>2. url \in Version
    BY <2>1 DEF FetchInv, TypeOK
  <2>3. \A v \in Version : ~Resolved(v)
    BY <1>1 DEF GetManifest, Request, Refusal
  <2>4. named = {url} /\ wanted \in {url, None}
    BY <2>1 DEF RequestOK
  <2> QED BY <2>2, <2>3, <2>4 DEF Resolved
<1>2. ASSUME FetchInv, Refusal, GetSignature PROVE Cause
  <2> SUFFICES ASSUME ~forwarded, version \notin touched, envelope'.keys \cap Trusted # {}
               PROVE  now > manifest.expires
    OBVIOUS
  <2>1. /\ pc = "signature" /\ envelope' = release[url].signature
        /\ ~(named = {version} /\ SignedBy(manifest, envelope') /\ ~Expired(manifest)
              /\ manifest.version = version)
    BY <1>2 DEF GetSignature, Request, Refusal
  <2>2. /\ url = version /\ named = {version} /\ release[version].manifest = manifest
        /\ Meant(version, release[version])
    BY <1>2, <2>1, RefusalOfMeant
  <2>3. SignedBy(manifest, envelope') /\ manifest.version = version
    BY <2>1, <2>2 DEF SignedBy, Meant
  <2>4. now + offset > manifest.expires + Skew
    BY <2>1, <2>2, <2>3 DEF Expired
  <2> QED BY <1>2, <2>1, <2>4, Times
<1>3. ASSUME FetchInv, Refusal, GetArchive PROVE Cause
  <2> SUFFICES ASSUME ~forwarded, version \notin touched PROVE FALSE
    OBVIOUS
  <2>1. /\ pc = "archive" /\ archive' = release[url].archive
        /\ ~(named = {version} /\ archive' = manifest.archive)
    BY <1>3 DEF GetArchive, Refusal
  <2>2. /\ url = version /\ named = {version} /\ release[version].manifest = manifest
        /\ Meant(version, release[version])
    BY <1>3, <2>1, RefusalOfMeant
  <2> QED BY <2>1, <2>2 DEF Meant
<1>4. ASSUME FetchInv, Refusal, VerifyMetadata PROVE Cause
  <2>1. pc = "lock" /\ FetchedOK
    BY <1>4 DEF VerifyMetadata, FetchInv
  <2>2. manifest.version = version /\ SignedBy(manifest, envelope)
    BY <2>1 DEF FetchedOK
  <2>3. now + offset > manifest.expires + Skew
    BY <1>4, <2>2 DEF VerifyMetadata, Refusal, Expired
  <2> QED BY <1>4, <2>1, <2>3, Times
<1>5. ASSUME FetchInv, Refusal, Next PROVE Cause
  <2>1. GetManifest \/ GetSignature \/ GetArchive \/ VerifyMetadata
    BY <1>5 DEF Next, Publisher, Publish, MoveLatest, BeginReplacing, ReplaceAsset, Tick, Client, Begin,
                Redirect, Return, call, Refusal
  <2> QED BY <1>1, <1>2, <1>3, <1>4, <1>5, <2>1
<1>6. FetchInv /\ [Next]_vars => [pc # "refused" /\ pc' = "refused" => Cause]_vars
  BY <1>5 DEF Refusal
<1> QED BY <1>6, FetchInvariant, PTL DEF Spec, RefusedForCause

=============================================================================
