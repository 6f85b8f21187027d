------------------------------ MODULE Archives ------------------------------
(***************************************************************************)
(* Archives on their way (src/Archive.cpp).  A chart of the user's is      *)
(* archived and compressed by the client, and unpacked by the server into  *)
(* a temporary directory; a release of the client is downloaded, unpacked  *)
(* and takes the place of the running program (src/client/Client.cpp,      *)
(* upgrade).                                                               *)
(*                                                                         *)
(* A name is modelled by its length: names in a directory have different   *)
(* lengths.  A path is the sequence of its names, a file is its size.      *)
(***************************************************************************)
EXTENDS Naturals, SequencesExt

CONSTANTS
  NameField,       \* 100: the bytes for a name in a header
  PrefixField,     \* 155: the bytes for what stands before it
  BlockSize,       \* 512: the bytes of a block of an archive
  ReadBlockSize,   \* 1024: how much is decompressed at a time
  Trailer,         \* 8: the bytes after the compressed data
  MaxName,         \* how long names are (a bound)
  MaxPacked        \* how long compressed data is (a bound)

ASSUME ArchiveAssumption ==
  /\ {NameField, PrefixField, BlockSize, ReadBlockSize, Trailer, MaxName, MaxPacked} \subseteq Nat \ {0}
  /\ Trailer < ReadBlockSize

VARIABLES
  cargo,       \* "chart" or "release"
  stage,       \* how far it is
  tree,        \* the chart: a set of entries
  todo,        \* the directories still to be archived
  listed,      \* what is still to be handled of the directory being archived
  archive,     \* the blocks of the archive
  input,       \* the state of the decompression
  unpacked,    \* the entries in the server's temporary directory
  tempFile,    \* the new program: "none", "empty", "part" or "whole", and whether it may run
  program,     \* the installed program: "old", "part" or "whole", and whether it may run
  diskFull     \* whether a write has failed

archiveVars == <<cargo, stage, tree, todo, listed, archive, input, unpacked, tempFile, program, diskFull>>

Entry(path, kind, size) == [path |-> path, kind |-> kind, size |-> size]
Length(path) ==
  LET upTo[i \in 0..Len(path)] == IF i = 0 THEN Len(path) - 1 ELSE upTo[i - 1] + path[i]
  IN  upTo[Len(path)]
Parent(path) == SubSeq(path, 1, Len(path) - 1)

-----------------------------------------------------------------------------
(* Headers.  A path longer than its field is split at the first slash that *)
(* leaves a rest that fits; the prefix may turn out one byte too long for  *)
(* its field, and then loses its last byte.                                *)

Splits(path) ==
  {k \in 1..(Len(path) - 1) :
     LET slash == Length(SubSeq(path, 1, k)) IN
     slash + NameField + 1 >= Length(path) /\ slash <= PrefixField + 1}

Fits(path) ==
  \/ Length(path) <= NameField
  \/ Length(path) <= NameField + PrefixField + 1 /\ Splits(path) # {}

PrefixStored(path) ==
  IF Length(path) <= PrefixField THEN path
  ELSE IF Last(path) = 1 THEN Front(path)
  ELSE Front(path) \o <<Last(path) - 1>>

NameStored(path) ==
  IF Length(path) <= NameField THEN path
  ELSE LET k == Min(Splits(path))
       IN PrefixStored(SubSeq(path, 1, k)) \o SubSeq(path, k + 1, Len(path))

Header(e) == [e EXCEPT !.path = NameStored(e.path)]
Data == Entry(<<>>, "data", 0)
Empty == Entry(<<>>, "empty", 0)

(* appendFile, appendDirectory and appendSymLink.                          *)
BlocksOf(size) == (size + BlockSize - 1) \div BlockSize
Appended(e) == <<Header(e)>> \o [i \in 1..BlocksOf(e.size) |-> Data]

-----------------------------------------------------------------------------
(* The client archives a chart.                                            *)

ToStage(s) == stage' = s
packing == UNCHANGED <<cargo, tree, unpacked, tempFile, program, diskFull>>

Children(dir) == {e \in tree : Parent(e.path) = dir /\ e.path # dir}

Write(e) ==
  IF Fits(e.path) THEN archive' = archive \o Appended(e) /\ UNCHANGED stage
  ELSE ToStage("failed") /\ UNCHANGED archive

(* recursivelyArchive: the next directory of the queue is archived and     *)
(* listed; what it lists is archived, or queued, in no particular order.   *)
archiveDirectory ==
  /\ stage = "archiving" /\ listed = {} /\ todo # <<>>
  /\ Write(Entry(Head(todo), "directory", 0))
  /\ todo' = Tail(todo) /\ listed' = Children(Head(todo))
  /\ UNCHANGED input /\ packing

archiveListed ==
  /\ stage = "archiving"
  /\ \E e \in listed :
       /\ listed' = listed \ {e}
       /\ \/ e.kind = "directory" /\ todo' = Append(todo, e.path) /\ UNCHANGED <<archive, stage>>
          \/ e.kind # "directory" /\ Write(e) /\ UNCHANGED todo
  /\ UNCHANGED input /\ packing

endStream ==
  /\ stage = "archiving" /\ todo = <<>> /\ listed = {}
  /\ archive' = archive \o <<Empty, Empty>>
  /\ ToStage("archived")
  /\ UNCHANGED <<todo, listed, input>> /\ packing

(* gzipCompress; how far the data shrinks is zlib's business.  It may be   *)
(* cut short before it is unpacked.                                        *)
gzipCompress ==
  /\ stage = "archived"
  /\ \E n \in 1..MaxPacked : \E arrived \in {n - 1, n + Trailer} :
       input' = [unread |-> arrived, left |-> n, avail |-> 0, eof |-> FALSE, success |-> FALSE]
  /\ ToStage("inflating")
  /\ UNCHANGED <<todo, listed, archive>> /\ packing

-----------------------------------------------------------------------------
(* gzipDecompress, one turn of its loop: more is read only when zlib has   *)
(* taken all; the end of the input is noticed only by reading beyond it.   *)
(* zlib complains when it gets nothing before the data is complete.        *)

Finished == input.success /\ input.eof

gzipDecompress ==
  /\ stage = "inflating"
  /\ LET reads == input.avail = 0
         got == IF reads THEN Min({input.unread, ReadBlockSize}) ELSE 0
         avail == input.avail + got
         taken == Min({avail, input.left})
     IN IF Finished THEN ToStage("reading") /\ UNCHANGED input
        ELSE IF avail = 0 /\ ~input.success THEN ToStage("failed") /\ UNCHANGED input
        ELSE /\ input' = [unread |-> input.unread - got, left |-> input.left - taken,
                          avail |-> avail - taken,
                          eof |-> input.eof \/ (reads /\ input.unread < ReadBlockSize),
                          success |-> taken = input.left]
             /\ UNCHANGED stage
  /\ UNCHANGED <<todo, listed, archive>> /\ packing

-----------------------------------------------------------------------------
(* TarReader::readFiles: a header, and then as many blocks as it says.     *)
(* A block that is no header fails its checksum.                           *)
skipped(size) == IF size % BlockSize = 0 THEN size \div BlockSize ELSE size \div BlockSize + 1

Rest(size) == SubSeq(archive, 2 + skipped(size), Len(archive))
AtEnd == archive = <<>> \/ (Len(archive) >= 2 /\ archive[1] = Empty /\ archive[2] = Empty)

(* extractToFileSystem; the targets of links are resolved in the server's  *)
(* own directory, and none lies within the temporary one.                  *)
MadeBy(e) ==
  CASE e.kind = "directory" ->
         {Entry(SubSeq(e.path, 1, i), "directory", 0) : i \in 1..Len(e.path)}
    [] e.kind = "file" -> {e}

Writable(e) ==
  \/ e.kind = "directory"
  \/ e.kind = "file" /\ (Len(e.path) = 1 \/ Entry(Parent(e.path), "directory", 0) \in unpacked)

extractToFileSystem ==
  /\ cargo = "chart" /\ stage = "reading"
  /\ IF AtEnd THEN ToStage("extracted") /\ UNCHANGED <<archive, unpacked>>
     ELSE LET e == Head(archive) IN
          IF e.kind \in {"directory", "file"} /\ Writable(e)
          THEN /\ unpacked' = unpacked \cup MadeBy(e)
               /\ archive' = Rest(e.size)
               /\ UNCHANGED stage
          ELSE ToStage("refused") /\ UNCHANGED <<archive, unpacked>>
  /\ UNCHANGED <<cargo, tree, todo, listed, input, tempFile, program, diskFull>>

(* The chart is installed, or not; recursivelyDestroyDirectory and the     *)
(* handle of the directory clean up before the answer.                     *)
destroyDirectory ==
  /\ cargo = "chart" /\ stage \in {"extracted", "refused"}
  /\ unpacked' = {}
  /\ ToStage(IF stage = "extracted" THEN "done" ELSE "failed")
  /\ UNCHANGED <<cargo, tree, todo, listed, archive, input, tempFile, program, diskFull>>

-----------------------------------------------------------------------------
(* upgrade: the program is taken from the archive into a temporary file,   *)
(* gets the mode it has in the archive, and is renamed.  Nobody asks       *)
(* whether it could be written.                                            *)

upgrading == UNCHANGED <<cargo, tree, todo, listed, input, unpacked>>
streamForFile ==
  /\ cargo = "release" /\ stage = "reading"
  /\ IF AtEnd THEN ToStage("remove") /\ UNCHANGED archive
     ELSE /\ archive' = Rest(archive[1].size)
          /\ IF archive[1].kind = "program" THEN ToStage("write")
             ELSE IF archive[1].kind = "file" THEN UNCHANGED stage ELSE ToStage("remove")
  /\ tempFile' = [content |-> "empty", runs |-> FALSE]
  /\ UNCHANGED <<program, diskFull>> /\ upgrading

writeProgram ==
  /\ stage = "write" /\ ToStage("chmod")
  /\ \/ tempFile' = [tempFile EXCEPT !.content = "whole"] /\ UNCHANGED diskFull
     \/ tempFile' = [tempFile EXCEPT !.content = "part"] /\ diskFull' = TRUE
  /\ UNCHANGED <<archive, program>> /\ upgrading

modeForFile ==
  /\ stage = "chmod"
  /\ \/ tempFile' = [tempFile EXCEPT !.runs = TRUE] /\ ToStage("rename")
     \/ UNCHANGED tempFile /\ ToStage("remove")
  /\ UNCHANGED <<archive, program, diskFull>> /\ upgrading

(* What would break the program: to rename what is not yet complete.       *)
renameEarly ==
  /\ stage \in {"write", "rename"} /\ program' = tempFile
  /\ tempFile' = [content |-> "none", runs |-> FALSE] /\ ToStage("remove")
  /\ UNCHANGED <<archive, diskFull>> /\ upgrading

renameProgram ==
  /\ stage = "rename"
  /\ \/ program' = tempFile /\ tempFile' = [content |-> "none", runs |-> FALSE]
     \/ UNCHANGED <<program, tempFile>>
  /\ ToStage("remove")
  /\ UNCHANGED <<archive, diskFull>> /\ upgrading

(* The handle of the temporary file.                                       *)
removeTemporary ==
  /\ stage = "remove" /\ ToStage("done")
  /\ tempFile' = [content |-> "none", runs |-> FALSE]
  /\ UNCHANGED <<archive, program, diskFull>> /\ upgrading

(* The client is killed.                                                   *)
killed ==
  /\ cargo = "release" /\ stage \notin {"done", "failed"} /\ ToStage("failed")
  /\ UNCHANGED <<archive, program, tempFile, diskFull>> /\ upgrading

-----------------------------------------------------------------------------
Chart(root, file, dir, inner, kind) ==
  {Entry(<<root>>, "directory", 0), Entry(<<root, file[1]>>, "file", file[2]),
   Entry(<<root, dir>>, "directory", 0), Entry(<<root, dir, inner[1]>>, kind, IF kind = "link" THEN 0 ELSE inner[2])}

NothingRead == [unread |-> 0, left |-> 0, avail |-> 0, eof |-> FALSE, success |-> FALSE]

ArchiveInit ==
  /\ unpacked = {} /\ listed = {} /\ diskFull = FALSE
  /\ tempFile = [content |-> "none", runs |-> FALSE]
  /\ program = [content |-> "old", runs |-> TRUE]
  /\ \/ /\ cargo = "chart" /\ stage = "archiving" /\ archive = <<>> /\ input = NothingRead
        /\ \E root, dir \in 1..MaxName, file, inner \in (1..MaxName) \X (0..(BlockSize + 1)),
              kind \in {"file", "link"} :
             /\ file[1] # dir
             /\ tree = Chart(root, file, dir, inner, kind)
             /\ todo = <<<<root>>>>
     \/ /\ cargo = "release" /\ stage = "archived" /\ tree = {} /\ todo = <<>> /\ input = NothingRead
        /\ \E before \in {<<>>, <<Data>>, Appended(Entry(<<1>>, "file", 1))},
              it \in {<<>>, Appended(Entry(<<2>>, "program", BlockSize + 1))} :
             archive = before \o it \o <<Empty, Empty>>

archiveStep ==
  \/ archiveDirectory \/ archiveListed \/ endStream \/ gzipCompress \/ gzipDecompress
  \/ extractToFileSystem \/ destroyDirectory
  \/ streamForFile \/ writeProgram \/ modeForFile \/ renameProgram \/ removeTemporary

ArchiveNext == archiveStep \/ killed
ArchiveSpec == ArchiveInit /\ [][ArchiveNext]_archiveVars

-----------------------------------------------------------------------------
SplitLate(path) ==
  /\ Length(path) > NameField /\ Fits(path)
  /\ Length(SubSeq(path, 1, Min(Splits(path)))) = PrefixField + 1

(* Whatever is sent arrives whole.                                         *)
(* A chart that is extracted is the user's: the same directories, the same *)
(* files with their contents, whatever the lengths of their paths and the  *)
(* sizes of the files.  The exception are paths that are split one byte    *)
(* behind the end of the prefix field: their prefix is shortened, and a    *)
(* directory appears under another name (TarWriter::append).               *)
(* However an upgrade ends, and wherever it is interrupted, the installed  *)
(* program is the old one or the complete new one, and can be run; unless  *)
(* the disk was full while the new one was written, which is not noticed   *)
(* (Client::upgrade).  Nothing stays behind in temporary places once a     *)
(* command has ended by itself.                                            *)
TransfersWhole ==
  /\ (cargo = "chart" /\ stage = "extracted") =>
       (unpacked = tree \/ \E e \in tree : SplitLate(e.path))
  /\ program.runs /\ program.content # "empty"
  /\ program.content = "part" => diskFull
  /\ stage = "done" => unpacked = {} /\ tempFile.content = "none"

(* The data that zlib has left over, the trailer or its beginning, is all  *)
(* that was read, and the end of the input has not been noticed.           *)
Spinning == input.success /\ input.avail > 0 /\ ~input.eof

TransferOver == stage \in {"done", "failed"}
=============================================================================
