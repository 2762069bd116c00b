------------------------------ MODULE MCParts ------------------------------
(* Parts on small instances for TLC: the records an archive may hold, and    *)
(* how many commands of the release tool take part, on what.                 *)
EXTENDS Parts, TLC

MkMember(type, path, size, content) ==
    [type |-> type, path |-> path, size |-> size, actual |-> size,
     content |-> content, executable |-> TRUE]

Root == MkMember("dir", "root", 0, "junk")

TarRecords ==
    {[type |-> "longname", path |-> p] : p \in {"payload", "other"}}
    \cup {[type |-> "longlink"]}
    \cup {[type |-> t, path |-> p, size |-> None] : t \in {"pax", "global"}, p \in {"payload", Empty}}
    \cup {[type |-> t, path |-> None, size |-> n] : t \in {"pax", "global"}, n \in {2, Empty}}
    \cup {Root,
          MkMember("dir", "other", 0, "junk"),
          MkMember("file", "payload", 2, "payload"),
          MkMember("file", "other", 2, "payload"),
          MkMember("file", "other", 1, "junk"),
          MkMember("file", "root", 1, "payload"),
          [MkMember("file", "payload", 2, "payload") EXCEPT !.executable = FALSE],
          MkMember("special", "other", 0, "junk"),
          MkMember("file", "unsafe", 0, "junk")}

ZipRecords ==
    {Root,
     MkMember("dir", "root", 1, "junk"),
     MkMember("dir", "other", 0, "junk"),
     MkMember("file", "root", 1, "junk"),
     MkMember("special", "other", 0, "junk"),
     MkMember("file", "unsafe", 0, "junk")}
    \cup {MkMember("file", p, n, c) :
            p \in {"payload", "launcher", "other"}, n \in {1, 2, 3}, c \in {"payload", "launcher"}}
    \cup {[MkMember("file", p, 2, p) EXCEPT !.actual = 1] : p \in {"payload", "launcher"}}

ArchiveRecords == [tar |-> TarRecords, zip |-> ZipRecords]

\* One command on a release of two platforms; two at once on one platform with
\* the archives of two builds; one with every build and key.
ToolSizes ==
    LET w == CHOOSE x \in Worker : TRUE
        t == CHOOSE x \in Target : TRUE
        b == CHOOSE x \in Usable : TRUE
        k == CHOOSE x \in Key : TRUE
    IN  {[workers |-> {w}, targets |-> Target, builds |-> {b}, keys |-> {k}],
         [workers |-> Worker, targets |-> {t}, builds |-> Usable, keys |-> {k}],
         [workers |-> {w}, targets |-> {t}, builds |-> Build, keys |-> Key]}

=============================================================================
