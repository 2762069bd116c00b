-------------------------------- MODULE Parts --------------------------------
(***************************************************************************)
(* The parts that share no state with one another, in one specification:   *)
(* every behaviour is one of one of them, picked at the start, while the   *)
(* others rest in one initial state.                                       *)
(***************************************************************************)
EXTENDS Extraction, ReleaseTool, KeyGen, NewFile, PrivateDir, Transfer

Part == {"archive", "release_tool", "key_generation", "new_file", "private_directory",
         "transfer"}

VARIABLE part

archiveVars == <<vars, extractVars>>

PartsInit ==
    /\ part \in Part
    /\ ExtractInit /\ (part # "archive" => format = "tar" /\ dest = CHOOSE d \in Dir : TRUE)
    /\ ToolInit /\ (part # "release_tool" => scale = CHOOSE s \in Sizes : TRUE)
                /\ (part # "release_tool" => anchor = {})
    /\ KeyInit /\ (part # "key_generation" => keyFile = [p \in Place |-> Nothing])
    /\ NewFileInit
    /\ DirInit /\ (part # "private_directory" => windows /\ managed = NoDir)
    /\ TransferInit /\ (part # "transfer" => reader = "stream" /\ ceiling = 0 /\ arriving = 0)

PartsNext ==
    /\ part' = part
    /\ \/ /\ part = "archive" /\ ExtractNext
          /\ UNCHANGED <<toolVars, keyVars, newFileVars, dirVars, transferVars>>
       \/ /\ part = "release_tool" /\ ToolNext
          /\ UNCHANGED <<archiveVars, keyVars, newFileVars, dirVars, transferVars>>
       \/ /\ part = "key_generation" /\ KeyNext
          /\ UNCHANGED <<archiveVars, toolVars, newFileVars, dirVars, transferVars>>
       \/ /\ part = "new_file" /\ NewFileNext
          /\ UNCHANGED <<archiveVars, toolVars, keyVars, dirVars, transferVars>>
       \/ /\ part = "private_directory" /\ DirNext
          /\ UNCHANGED <<archiveVars, toolVars, keyVars, newFileVars, transferVars>>
       \/ /\ part = "transfer" /\ TransferNext
          /\ UNCHANGED <<archiveVars, toolVars, keyVars, newFileVars, dirVars>>

partsVars ==
    <<part, archiveVars, toolVars, keyVars, newFileVars, dirVars, transferVars>>

PartsSpec == PartsInit /\ [][PartsNext]_partsVars

-----------------------------------------------------------------------------
\* Every variable of every part keeps its type.
PartsTypeOK ==
    /\ ExtractTypeOK /\ ToolTypeOK /\ KeyTypeOK
    /\ NewFileTypeOK /\ DirTypeOK /\ TransferTypeOK

\* No step of an extraction, of a key generation or of a thread that publishes
\* a file replaces or removes what is not its own.
FilesKept == OthersKept /\ KeysNotReplaced /\ PublishedIsOwn

=============================================================================
