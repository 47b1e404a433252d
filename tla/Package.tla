--------------------------------- MODULE Package ---------------------------------
(***************************************************************************)
(* Reading a firmware package (file.cpp): image_read with the md5 list it  *)
(* obeys if it finds one, the images of partition_nand.xml, the programmer *)
(* files of the directory and the files of its firehose directory. Nothing *)
(* here changes the package, so every function is an operator on it.       *)
(*                                                                         *)
(* A package is a record:                                                  *)
(*   contents, nand    the two XML files: "absent", "broken" (no root      *)
(*                     element), "empty" (without the element looked for)  *)
(*                     or "good"                                           *)
(*   md5               the lines of md5.txt; none, if there is no such file*)
(*   entries           the elements of "partitions": the texts of the      *)
(*                     children name and img_name of each, at most one of  *)
(*                     either, in any order                                *)
(*   sum               the md5 sum of every file that exists               *)
(*   dir               the files of the directory, as readdir lists them   *)
(*   firehose          those of its firehose directory, or NoDir           *)
(* A file is its name; a sum is a number, 0 stands for an empty value.     *)
(***************************************************************************)
EXTENDS Naturals, Sequences, FiniteSets, FiniteSetsExt

CONSTANTS
    Within,      \* pairs: the second text stands inside the path of the first, a file
    PlatformOf   \* the platform whose number stands in a file's path, or "unknown"

NoDir == <<"absent">>

-----------------------------------------------------------------------------
(* The md5 list. *)

Pairs(lines) == {k \in DOMAIN lines : lines[k].kind = "pair"}

NoItem == [name |-> "", value |-> 0]

(* parse_line and parse_md5_file: the items of a list. A line with a       *)
(* marker, or a backslash behind the colon, is skipped. One without either *)
(* of them is taken, with the name and the value of the last line that had *)
(* a pair, which adds nothing; before the first such line they are empty.  *)
ParseMd5File(lines) ==
    {[name |-> lines[k].name, value |-> lines[k].value] : k \in Pairs(lines)}
        \cup {NoItem : k \in {k \in DOMAIN lines : /\ lines[k].kind = "plain"
                                                 /\ \A j \in Pairs(lines) : k < j}}

Md5Vec(pkg) == ParseMd5File(pkg.md5)

(* A list without a single item is ignored.                                *)
Md5CheckEnable(pkg) == Md5Vec(pkg) # {}

Exists(pkg, file) == file \in DOMAIN pkg.sum

LookupItemMutant(vec, file, md5) ==      \* the value of any item will do
    \E item \in vec : item.value = md5

(* lookup_item compares with strstr: the name of an item need only stand   *)
(* somewhere in the path, and an empty name stands in every path.          *)
LookupItem(vec, file, md5) ==
    \E item \in vec :
        /\ item.name \in {"", file} \/ <<file, item.name>> \in Within
        /\ item.value = md5

(* check_file_md5_value = 0.                                               *)
CheckFileMd5Value(pkg, file) ==
    Exists(pkg, file) /\ LookupItem(Md5Vec(pkg), file, pkg.sum[file])

Checked(pkg, file) == Md5CheckEnable(pkg) => CheckFileMd5Value(pkg, file)

-----------------------------------------------------------------------------
(* The images. *)

Tags == {"name", "img_name"}

Entry == {<<>>} \cup [{"name"} -> STRING] \cup [{"img_name"} -> STRING] \cup [Tags -> STRING]

(* i == 2, as it comes out for elements with at most one of each.          *)
Whole(entry) == DOMAIN entry = Tags

(* The elements that are kept, by their positions.                         *)
UfileList(pkg) ==
    [k \in {k \in DOMAIN pkg.entries : Whole(pkg.entries[k])} |-> pkg.entries[k]]

(* Every image is checked, of elements that are dropped afterwards, too.   *)
ImagesChecked(pkg) ==
    \A k \in DOMAIN pkg.entries :
        "img_name" \in DOMAIN pkg.entries[k] => Checked(pkg, pkg.entries[k].img_name)

MIBIB == "0:MIBIB"

(* partition_path: of the last such image.                                 *)
PartitionPath(pkg) ==
    LET mibib == {k \in DOMAIN UfileList(pkg) : UfileList(pkg)[k].name = MIBIB} IN
    IF mibib = {} THEN "" ELSE UfileList(pkg)[Max(mibib)].img_name

(* The images that do_fastboot_download_direct leaves out.                 *)
SaharaStage == {"0:aboot", "0:SBL", "0:RPM", "0:TZ"}

(* A name without a colon leaves partition_name NULL.                      *)
NoPartitionName(ufile) == ufile.name = "nocolon"

-----------------------------------------------------------------------------
(* The programmers and the firehose directory. *)

(* retrieve_nrpg_enrpg_filename: the last of the directory wins.           *)
Programmer(pkg, prefix) ==
    LET found == {k \in DOMAIN pkg.dir : pkg.dir[k].prefix = prefix} IN
    IF found = {} THEN "" ELSE pkg.dir[Max(found)].file

(* retrieve_filename: the first of these words that stands in the name     *)
(* decides what a file is taken for.                                       *)
FirehoseKind(words) ==
    CASE "patch" \in words -> "patch"
      [] "patch" \notin words /\ "partition" \in words -> "partition"
      [] words \cap {"patch", "partition"} = {} /\ "raw" \in words -> "raw"
      [] words \cap {"patch", "partition", "raw"} = {} /\ "prog" \in words -> "prog"
      [] OTHER -> "none"

FirehoseRead(pkg) ==
    pkg.firehose # NoDir =>
        {"patch", "partition", "raw", "prog"} \subseteq
            {FirehoseKind(pkg.firehose[k]) : k \in DOMAIN pkg.firehose}

-----------------------------------------------------------------------------
ContentsRead(pkg) == pkg.contents = "good" /\ Checked(pkg, "contents")

PartitionsRead(pkg) ==
    pkg.nand = "good" /\ Checked(pkg, "nand") /\ ImagesChecked(pkg)

ProgrammersRead(pkg) ==
    LET nprg == Programmer(pkg, "NPRG")  enprg == Programmer(pkg, "ENPRG") IN
    /\ nprg # "" /\ enprg # ""
    /\ PlatformOf[nprg] # "unknown"
    /\ Checked(pkg, nprg) /\ Checked(pkg, enprg)

(* image_read = 1: each part is read only if those before it were.         *)
ImageRead(pkg) ==
    /\ ContentsRead(pkg)
    /\ PartitionsRead(pkg)
    /\ ProgrammersRead(pkg)
    /\ FirehoseRead(pkg)
=============================================================================
