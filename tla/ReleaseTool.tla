---------------------------- MODULE ReleaseTool ----------------------------
(***************************************************************************)
(* relswap (src/src/bin/relswap.rs): the commands with which a release is  *)
(* published.  manifest describes the archives of a directory and writes a *)
(* checksum beside each; sign signs the manifest, or adds a signature to   *)
(* those there are; verify decides whether clients will accept the whole.  *)
(* They share nothing but files, which every command reads one after the   *)
(* other and writes in place, while builds go on replacing archives.       *)
(***************************************************************************)
EXTENDS Naturals, FiniteSets

CONSTANTS
    Worker,     \* processes that run a command
    Target,     \* platforms of a release
    Build,      \* contents an archive can have
    Usable,     \* those that pass inspection
    Key,        \* ids of signing keys
    Sizes,      \* bounds: the workers, targets, builds and keys that take part
    Mixed,      \* an asset with the archive of one build, the payload of another
    Torn,       \* a file cut short
    Missing     \* no file, or nothing

ASSUME BuildAssumption == Usable \subseteq Build
ASSUME SizesAssumption ==
    Sizes \subseteq [workers : SUBSET Worker, targets : SUBSET Target,
              builds : SUBSET Build, keys : SUBSET Key]
ASSUME MissingAssumption == Missing \notin Target \cup Key /\ Torn # Missing

\* The files.
Archive(t)  == <<"archive", t>>
Checksum(t) == <<"checksum", t>>
Manifest    == <<"manifest">>
Signatures  == <<"signatures">>
Artifact == {Archive(t) : t \in Target} \cup {Checksum(t) : t \in Target}
            \cup {Manifest, Signatures}

\* A manifest is the assets by target, an envelope what each key has signed.
ManifestValue == UNION {[T -> Build \cup {Mixed}] : T \in SUBSET Target}
EnvelopeValue == UNION {[K -> ManifestValue] : K \in SUBSET Key}
Unsigned == [k \in {} |-> Missing]
NoAssets == [t \in {} |-> Missing]

ASSUME ValueAssumption ==
    /\ Mixed \notin Build \cup {Missing, Torn}
    /\ {Missing, Torn} \cap (Build \cup ManifestValue \cup EnvelopeValue) = {}

Holds(f) == CASE f = Manifest   -> ManifestValue
              [] f = Signatures -> EnvelopeValue
              [] OTHER          -> Build

VARIABLES
    scale,      \* those of one behaviour
    disk,       \* the files
    anchor,     \* the keys in the trusted-key document
    job,        \* the command of each worker
    doing,      \* where it is
    todo,       \* the targets it has yet to look at
    target,     \* the one it looks at
    asset,      \* what it has found out about that
    assets,     \* the manifest it has read or is making
    key,        \* the key it signs with
    output,     \* the file it writes
    written,    \* what it writes there
    alone       \* history: the workers whose files nobody else has touched

toolLocals == <<job, todo, target, asset, assets, key, output, written>>
fixed == <<scale, anchor>>
toolVars == <<fixed, disk, doing, toolLocals, alone>>

Intact(f) == disk[f] \notin {Missing, Torn}

ToolTypeOK ==
    /\ scale \in Sizes
    /\ \A f \in Artifact : disk[f] \in {Missing, Torn} \/ disk[f] \in Holds(f)
    /\ anchor \subseteq Key
    /\ job \in [Worker -> {"manifest", "sign", "append", "verify", Missing}]
    /\ todo \in [Worker -> SUBSET Target]
    /\ target \in [Worker -> Target \cup {Missing}]
    /\ asset \in [Worker -> Build \cup {Mixed, Missing}]
    /\ \A w \in Worker : assets[w] \in ManifestValue
    /\ key \in [Worker -> Key \cup {Missing}]
    /\ \A w \in Worker :
         \/ output[w] = Missing /\ written[w] = Missing
         \/ output[w] \in Artifact /\ written[w] \in Holds(output[w])

ToolInit ==
    /\ scale \in Sizes
    /\ disk \in [Artifact -> {Missing}]
    /\ anchor \in SUBSET scale.keys
    /\ job = [w \in Worker |-> Missing]
    /\ doing = [w \in Worker |-> "idle"]
    /\ todo = [w \in Worker |-> {}]
    /\ target = [w \in Worker |-> Missing]
    /\ asset = [w \in Worker |-> Missing]
    /\ assets = [w \in Worker |-> NoAssets]
    /\ key = [w \in Worker |-> Missing]
    /\ output = [w \in Worker |-> Missing]
    /\ written = [w \in Worker |-> Missing]
    /\ alone = {}

-----------------------------------------------------------------------------
ToolGoto(w, l) == doing' = [doing EXCEPT ![w] = l]

\* A command ends: "refused", "verified", "signed" or "finished".
ToolEnd(w, how) ==
    /\ ToolGoto(w, how)
    /\ todo' = [todo EXCEPT ![w] = {}]
    /\ target' = [target EXCEPT ![w] = Missing]
    /\ asset' = [asset EXCEPT ![w] = Missing]
    /\ assets' = [assets EXCEPT ![w] = NoAssets]
    /\ output' = [output EXCEPT ![w] = Missing]
    /\ written' = [written EXCEPT ![w] = Missing]
    /\ UNCHANGED <<job, key>>

\* The archives in the directory; those of other names are none of its business.
Listed == {t \in Target : disk[Archive(t)] # Missing}

ToolStart(w) ==
    /\ doing[w] = "idle"
    /\ \/ /\ Listed # {}
          /\ job' = [job EXCEPT ![w] = "manifest"]
          /\ todo' = [todo EXCEPT ![w] = Listed]
          /\ ToolGoto(w, "probe")
          /\ UNCHANGED key
       \/ \E k \in scale.keys :
            /\ \E j \in {"sign", "append"} : job' = [job EXCEPT ![w] = j]
            /\ key' = [key EXCEPT ![w] = k]
            /\ ToolGoto(w, "read")
            /\ UNCHANGED todo
       \/ /\ job' = [job EXCEPT ![w] = "verify"]
          /\ ToolGoto(w, "read")
          /\ UNCHANGED <<todo, key>>
    /\ alone' = alone \cup {w}
    /\ UNCHANGED <<disk, fixed, target, asset, assets, output, written>>

\* fs::write: the file is cut to nothing, then written.
ToolWrites(w, f, v) ==
    /\ output' = [output EXCEPT ![w] = f]
    /\ written' = [written EXCEPT ![w] = v]
    /\ ToolGoto(w, "truncate")

Truncate(w) ==
    /\ doing[w] = "truncate"
    /\ disk' = [disk EXCEPT ![output[w]] = Torn]
    /\ alone' = alone \cap {w}
    /\ ToolGoto(w, "fill")
    /\ UNCHANGED <<fixed, toolLocals>>

\* When another has written the file since, the two may be mixed up in it.
ToolFill(w) ==
    /\ doing[w] = "fill"
    /\ \E v \in {written[w]} \cup (IF disk[output[w]] = Torn THEN {} ELSE {Torn}) :
         disk' = [disk EXCEPT ![output[w]] = v]
    /\ alone' = alone \cap {w}
    /\ IF job[w] = "manifest" /\ output[w] # Manifest
       THEN /\ assets' = [assets EXCEPT ![w] =
                 [t \in DOMAIN @ \cup {target[w]} |-> IF t = target[w] THEN asset[w] ELSE @[t]]]
            /\ todo' = [todo EXCEPT ![w] = @ \ {target[w]}]
            /\ ToolGoto(w, "probe")
            /\ UNCHANGED <<job, target, asset, key, output, written>>
       ELSE ToolEnd(w, IF job[w] = "manifest" THEN "finished" ELSE "signed")
    /\ UNCHANGED fixed

-----------------------------------------------------------------------------
(* generate_manifest.                                                      *)

\* hash_file: the archive's own digest.
ProbeArchive(w) ==
    /\ doing[w] = "probe"
    /\ \E t \in todo[w] :
         IF disk[Archive(t)] = Missing
         THEN ToolEnd(w, "refused")
         ELSE /\ target' = [target EXCEPT ![w] = t]
              /\ asset' = [asset EXCEPT ![w] = disk[Archive(t)]]
              /\ ToolGoto(w, "contents")
              /\ UNCHANGED <<job, todo, assets, key, output, written>>
    /\ UNCHANGED <<disk, fixed, alone>>

\* The members are those of a release, once each, within the limits.
Inspects(b) == b \in Usable

\* inspect_tar or inspect_zip opens it again for the digests of its members.
ProbeContents(w) ==
    /\ doing[w] = "contents"
    /\ LET now == disk[Archive(target[w])]
       IN  IF ~Inspects(now)
           THEN ToolEnd(w, "refused")
           ELSE /\ asset' = [asset EXCEPT ![w] = IF @ = now THEN now ELSE Mixed]
                /\ ToolGoto(w, "inspect")
                /\ UNCHANGED <<job, todo, target, assets, key, output, written>>
    /\ UNCHANGED <<disk, fixed, alone>>

\* The engine's own inspection reads it a third time, against both digests.
InspectArchive(w) ==
    /\ doing[w] = "inspect"
    /\ IF disk[Archive(target[w])] = asset[w]
       THEN /\ ToolWrites(w, Checksum(target[w]), asset[w])
            /\ UNCHANGED <<job, todo, target, asset, assets, key>>
       ELSE ToolEnd(w, "refused")
    /\ UNCHANGED <<disk, fixed, alone>>

WriteManifest(w) ==
    /\ doing[w] = "probe"
    /\ todo[w] = {}
    /\ ToolWrites(w, Manifest, assets[w])
    /\ UNCHANGED <<disk, fixed, alone, job, todo, target, asset, assets, key>>

-----------------------------------------------------------------------------
(* sign_manifest.                                                          *)

ReadManifest(w) ==
    /\ doing[w] = "read"
    /\ IF ~Intact(Manifest)
       THEN ToolEnd(w, "refused")
       ELSE /\ assets' = [assets EXCEPT ![w] = disk[Manifest]]
            /\ ToolGoto(w, IF job[w] = "verify" THEN "check" ELSE "sign")
            /\ UNCHANGED <<job, todo, target, asset, key, output, written>>
    /\ UNCHANGED <<disk, fixed, alone>>

\* The signatures it adds to.
Envelope(w) ==
    IF job[w] = "append" /\ Intact(Signatures) THEN disk[Signatures] ELSE Unsigned

Signed(w) ==
    [k \in DOMAIN Envelope(w) \cup {key[w]} |->
        IF k = key[w] THEN assets[w] ELSE Envelope(w)[k]]

\* A key signs once.
Sign(w) ==
    /\ doing[w] = "sign"
    /\ IF \/ job[w] = "append" /\ disk[Signatures] = Torn
          \/ key[w] \in DOMAIN Envelope(w)
       THEN ToolEnd(w, "refused")
       ELSE /\ ToolWrites(w, Signatures, Signed(w))
            /\ UNCHANGED <<job, todo, target, asset, assets, key>>
    /\ UNCHANGED <<disk, fixed, alone>>

-----------------------------------------------------------------------------
(* verify_release.                                                         *)

\* verify_manifest_with_keys: over the bytes of this manifest.
Trusted(a, e) == \E k \in anchor \cap DOMAIN e : e[k] = a

\* read_keys refuses a document without keys.
HasKeys == anchor # {}

CheckSignatures(w) ==
    /\ doing[w] = "check"
    /\ IF Intact(Signatures) /\ HasKeys /\ Trusted(assets[w], disk[Signatures])
       THEN /\ todo' = [todo EXCEPT ![w] = DOMAIN assets[w]]
            /\ ToolGoto(w, "archive")
            /\ UNCHANGED <<job, target, asset, assets, key, output, written>>
       ELSE ToolEnd(w, "refused")
    /\ UNCHANGED <<disk, fixed, alone>>

CheckArchive(w) ==
    /\ doing[w] = "archive"
    /\ \E t \in todo[w] :
         IF disk[Archive(t)] # assets[w][t]
         THEN ToolEnd(w, "refused")
         ELSE /\ target' = [target EXCEPT ![w] = t]
              /\ ToolGoto(w, "checksum")
              /\ UNCHANGED <<job, todo, asset, assets, key, output, written>>
    /\ UNCHANGED <<disk, fixed, alone>>

\* A bug: the checksum beside an archive is compared with the archive only.
CheckNoChecksum(w) ==
    /\ doing[w] = "checksum"
    /\ ToolGoto(w, "rehash")
    /\ UNCHANGED <<disk, fixed, alone, toolLocals>>

CheckChecksum(w) ==
    /\ doing[w] = "checksum"
    /\ IF disk[Checksum(target[w])] # assets[w][target[w]]
       THEN ToolEnd(w, "refused")
       ELSE ToolGoto(w, "rehash") /\ UNCHANGED toolLocals
    /\ UNCHANGED <<disk, fixed, alone>>

\* verify_checksum_file hashes the archive once more.
CheckAgain(w) ==
    /\ doing[w] = "rehash"
    /\ IF disk[Archive(target[w])] # assets[w][target[w]]
       THEN ToolEnd(w, "refused")
       ELSE /\ todo' = [todo EXCEPT ![w] = @ \ {target[w]}]
            /\ ToolGoto(w, "archive")
            /\ UNCHANGED <<job, target, asset, assets, key, output, written>>
    /\ UNCHANGED <<disk, fixed, alone>>

\* Last, no archive may be in the directory that the manifest does not name.
CheckListing(w) ==
    /\ doing[w] = "archive"
    /\ todo[w] = {}
    /\ ToolEnd(w, IF Listed \subseteq DOMAIN assets[w] THEN "verified" ELSE "refused")
    /\ UNCHANGED <<disk, fixed, alone>>

-----------------------------------------------------------------------------
ToolExit(w) ==
    /\ doing[w] # "idle"
    /\ doing' = [doing EXCEPT ![w] = "idle"]
    /\ job' = [job EXCEPT ![w] = Missing]
    /\ key' = [key EXCEPT ![w] = Missing]
    /\ todo' = [todo EXCEPT ![w] = {}]
    /\ target' = [target EXCEPT ![w] = Missing]
    /\ asset' = [asset EXCEPT ![w] = Missing]
    /\ assets' = [assets EXCEPT ![w] = NoAssets]
    /\ output' = [output EXCEPT ![w] = Missing]
    /\ written' = [written EXCEPT ![w] = Missing]
    /\ alone' = alone \ {w}
    /\ UNCHANGED <<disk, fixed>>

\* A build puts an archive in place, or takes it away.
Rebuild(t) ==
    /\ \E b \in scale.builds \cup {Missing} : disk' = [disk EXCEPT ![Archive(t)] = b]
    /\ alone' = {}
    /\ UNCHANGED <<fixed, doing, toolLocals>>

ToolNext ==
    \/ \E w \in scale.workers :
         \/ ToolStart(w) \/ Truncate(w) \/ ToolFill(w) \/ ToolExit(w)
         \/ ProbeArchive(w) \/ ProbeContents(w) \/ InspectArchive(w) \/ WriteManifest(w)
         \/ ReadManifest(w) \/ Sign(w)
         \/ CheckSignatures(w) \/ CheckArchive(w) \/ CheckChecksum(w) \/ CheckAgain(w)
         \/ CheckListing(w)
    \/ \E t \in scale.targets : Rebuild(t)

ToolSpec == ToolInit /\ [][ToolNext]_toolVars

-----------------------------------------------------------------------------
\* A manifest only ever describes archives that passed inspection, each asset
\* from one build, though archives are replaced between the three readings of
\* generate_manifest, and commands cut each other short.
ManifestOfBuilds ==
    Intact(Manifest) => \A t \in DOMAIN disk[Manifest] : disk[Manifest][t] \in Usable

\* What verify asks of a release as it is in the files: what a client asks of
\* the one asset it takes, of every asset, and that the checksum files are right
\* and no archive is left unlisted, at which a client does not look.
Publishable ==
    /\ Intact(Manifest) /\ Intact(Signatures)
    /\ Trusted(disk[Manifest], disk[Signatures])
    /\ \A t \in DOMAIN disk[Manifest] :
         disk[Archive(t)] = disk[Manifest][t] /\ disk[Checksum(t)] = disk[Manifest][t]
    /\ Listed \subseteq DOMAIN disk[Manifest]

\* verify's verdict on files nobody touched meanwhile is right, whatever
\* cut-short commands, later builds and signatures over earlier manifests have
\* left in them; and what it verifies, a client takes.
VerifiedIsPublishable ==
    \A w \in alone : job[w] = "verify" =>
        /\ doing[w] = "verified" => Publishable
        /\ doing[w] = "refused" => ~Publishable

\* A signing reported as done covers the manifest there is, also when it adds
\* to signatures made before the manifest was written again.
SignedIsCurrent ==
    \A w \in alone : doing[w] = "signed" =>
        /\ Intact(Signatures)
        /\ key[w] \in DOMAIN disk[Signatures]
        /\ disk[Signatures][key[w]] = disk[Manifest]

\* What the commands write and report is true of the files, in whatever order
\* they run, are killed and meet new builds.
ReportsTrue == ManifestOfBuilds /\ VerifiedIsPublishable /\ SignedIsCurrent

=============================================================================
