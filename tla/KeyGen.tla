------------------------------- MODULE KeyGen -------------------------------
(***************************************************************************)
(* relswap keygen (generate_key in src/src/bin/relswap.rs): a private key  *)
(* and the public document of the same key are created, each at a path     *)
(* where nothing was, by several runs at once and beside other programs.   *)
(***************************************************************************)
EXTENDS Naturals

CONSTANTS
    Maker,      \* runs of keygen
    Place,      \* paths
    Somebody,   \* whoever else creates files
    Nothing     \* no file, or no path

ASSUME MakerAssumption == Nothing \notin Maker \cup Place /\ Somebody \notin Maker

KeyFile == [by : Maker, kind : {"private", "public"}, whole : BOOLEAN]
Foreign == [by |-> Somebody, kind |-> "other", whole |-> TRUE]

ASSUME NothingAssumption == Nothing \notin KeyFile \cup {Foreign}

VARIABLES
    keyFile,    \* the file at each path
    stage,      \* where each run is
    private,    \* the paths it was given
    public

keyVars == <<keyFile, stage, private, public>>

Stages == {"start", "check private", "check public", "create private", "fill private",
           "create public", "fill public", "remove", "made", "failed", "half failed",
           "killed"}

KeyTypeOK ==
    /\ keyFile \in [Place -> KeyFile \cup {Foreign, Nothing}]
    /\ stage \in [Maker -> Stages]
    /\ private \in [Maker -> Place \cup {Nothing}]
    /\ public \in [Maker -> Place \cup {Nothing}]
    /\ \A m \in Maker : stage[m] = "fill private" =>
          keyFile[private[m]] = [by |-> m, kind |-> "private", whole |-> FALSE]

KeyInit ==
    /\ keyFile \in [Place -> {Foreign, Nothing}]
    /\ stage = [m \in Maker |-> "start"]
    /\ private = [m \in Maker |-> Nothing]
    /\ public = [m \in Maker |-> Nothing]

-----------------------------------------------------------------------------
Reach(m, s) == stage' = [stage EXCEPT ![m] = s]

\* The paths must differ as they are written, and may still be the same place.
KeyBegin(m) ==
    /\ stage[m] = "start"
    /\ \E p, q \in Place :
         private' = [private EXCEPT ![m] = p] /\ public' = [public EXCEPT ![m] = q]
    /\ Reach(m, "check private")
    /\ UNCHANGED keyFile

\* ensure_new_path, and ensure_parent, which may refuse as well.
CheckNew(m) ==
    /\ \/ /\ stage[m] = "check private"
          /\ Reach(m, IF keyFile[private[m]] = Nothing THEN "check public" ELSE "failed")
       \/ /\ stage[m] = "check public"
          /\ Reach(m, IF keyFile[public[m]] = Nothing THEN "create private" ELSE "failed")
       \/ /\ stage[m] = "check public"
          /\ Reach(m, "failed")
    /\ UNCHANGED <<keyFile, private, public>>

\* A bug: the file is opened to be written, whether it is new or not.
CreateAnyhow(m, kind, p, then, refused) ==
    /\ keyFile' = [keyFile EXCEPT ![p] = [by |-> m, kind |-> kind, whole |-> FALSE]]
    /\ Reach(m, then)

\* create_new: refused when by now there is a file, or for any other reason.
CreateNew(m, kind, p, then, refused) ==
    \/ /\ keyFile[p] = Nothing
       /\ keyFile' = [keyFile EXCEPT ![p] = [by |-> m, kind |-> kind, whole |-> FALSE]]
       /\ Reach(m, then)
    \/ Reach(m, refused) /\ UNCHANGED keyFile

CreatePrivate(m) ==
    /\ stage[m] = "create private"
    /\ CreateNew(m, "private", private[m], "fill private", "failed")
    /\ UNCHANGED <<private, public>>

\* A failure to write or protect the private key leaves what there is of it.
FillPrivate(m) ==
    /\ stage[m] = "fill private"
    /\ \/ /\ keyFile' = [keyFile EXCEPT ![private[m]].whole = TRUE]
          /\ stage' \in {[stage EXCEPT ![m] = s] : s \in {"create public", "half failed"}}
       \/ Reach(m, "half failed") /\ UNCHANGED keyFile
    /\ UNCHANGED <<private, public>>

CreatePublic(m) ==
    /\ stage[m] = "create public"
    /\ CreateNew(m, "public", public[m], "fill public", "remove")
    /\ UNCHANGED <<private, public>>

\* sync_all may fail when all has been written.
FillPublic(m) ==
    /\ stage[m] = "fill public"
    /\ \/ /\ keyFile' = [keyFile EXCEPT ![public[m]].whole = TRUE]
          /\ stage' \in {[stage EXCEPT ![m] = s] : s \in {"made", "remove"}}
       \/ Reach(m, "remove") /\ UNCHANGED keyFile
    /\ UNCHANGED <<private, public>>

\* A bug: it stays.
RemoveNothing(m) ==
    /\ stage[m] = "remove"
    /\ Reach(m, "failed")
    /\ UNCHANGED <<keyFile, private, public>>

\* Without its public document a private key is removed again, if it can be.
RemovePrivate(m) ==
    /\ stage[m] = "remove"
    /\ \/ keyFile' = [keyFile EXCEPT ![private[m]] = Nothing] /\ Reach(m, "failed")
       \/ Reach(m, "half failed") /\ UNCHANGED keyFile
    /\ UNCHANGED <<private, public>>

KeyKilled(m) ==
    /\ stage[m] \notin {"start", "made", "failed", "half failed", "killed"}
    /\ Reach(m, "killed")
    /\ UNCHANGED <<keyFile, private, public>>

\* Others create a file where there is none.
SomebodyCreates(p) ==
    /\ keyFile[p] = Nothing
    /\ keyFile' = [keyFile EXCEPT ![p] = Foreign]
    /\ UNCHANGED <<stage, private, public>>

KeyNext ==
    \/ \E m \in Maker :
         \/ KeyBegin(m) \/ CheckNew(m) \/ CreatePrivate(m) \/ FillPrivate(m)
         \/ CreatePublic(m) \/ FillPublic(m) \/ RemovePrivate(m) \/ KeyKilled(m)
    \/ \E p \in Place : SomebodyCreates(p)

KeySpec == KeyInit /\ [][KeyNext]_keyVars

-----------------------------------------------------------------------------
\* No file is overwritten or removed but by the run that created it, however
\* many runs were given the same paths, also crosswise (the comment before
\* write_new in generate_key).
KeysNotReplaced ==
    [][\A p \in Place :
         keyFile[p] # Nothing /\ keyFile'[p] # keyFile[p] =>
             \E m \in Maker : keyFile[p].by = m /\ stage'[m] # stage[m]]_keyVars

OwnWhole(m, p, kind) == keyFile[p] = [by |-> m, kind |-> kind, whole |-> TRUE]

\* A run that reports success has left both files whole; one that refuses, or
\* cannot make the public document, leaves no private key behind, unless the
\* key cannot be written to its end or not be removed ("half failed"); a public
\* document is there, while its run goes on, only beside its private key.
KeysPaired ==
    \A m \in Maker :
        /\ stage[m] = "made" =>
             OwnWhole(m, private[m], "private") /\ OwnWhole(m, public[m], "public")
        /\ stage[m] = "failed" => \A p \in Place : ~OwnWhole(m, p, "private")
        /\ \A p \in Place : OwnWhole(m, p, "public") /\ stage[m] # "failed" =>
             OwnWhole(m, private[m], "private")

=============================================================================
