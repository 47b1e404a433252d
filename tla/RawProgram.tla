-------------------------------- MODULE RawProgram --------------------------------
(***************************************************************************)
(* The rawprogram*.xml of a package and what the firehose child makes of   *)
(* it (fh_parse_xml_file, fh_parse_xml_line, fh_fixup_program_cmd and the  *)
(* loop of fh_send_rawmode_image, firehose_protocol.c): the table of       *)
(* commands, the sectors a program command announces to the programmer,    *)
(* and the reads into which its image is cut.                              *)
(*                                                                         *)
(* fh_cmd_table is the set of the numbers of the lines that were stored in *)
(* it; it has room for 32. Sizes are counted in sectors.                   *)
(***************************************************************************)
EXTENDS Naturals, FiniteSets

CONSTANTS
    NumLines,    \* the lines of the file
    Tag,         \* the element on each: "erase", "program" or "other"
    Filename,    \* its filename; NoName for filename=""
    NoName,
    Sectored,    \* its SECTOR_SIZE_IN_BYTES is not 0
    MaxSectors,  \* bound: the whole sectors of an image
    PerSize,     \* persize, 16 K: the most that is read of a file at a time
    MaxBulk      \* MAX_USBFS_BULK_OUT_SIZE, 16 K: the most usbfs is given at a time

Lines == 1..NumLines

ASSUME RawProgramAssumption ==
    /\ NumLines \in Nat
    /\ Tag \in [Lines -> {"erase", "program", "other"}]
    /\ DOMAIN Filename = Lines
    /\ Sectored \in [Lines -> BOOLEAN]
    /\ MaxSectors \in Nat
    /\ PerSize \in Nat \ {0}
    /\ MaxBulk \in Nat \ {0}

(* A line of an erase is stored, and one of a program that names a file;   *)
(* "some fw version have blank program line, ignore it".                   *)
ParseXmlLine(n) ==
    \/ Tag[n] = "erase"
    \/ Tag[n] = "program" /\ Filename[n] # NoName

(* fh_parse_xml_file.                                                      *)
FhCmdTable == {n \in Lines : ParseXmlLine(n)}

(* fh_cmd_table has 32 entries, and nothing looks at that.                 *)
ASSUME TableHolds == Cardinality(FhCmdTable) <= 32

Erases   == {n \in FhCmdTable : Tag[n] = "erase"}
Programs == {n \in FhCmdTable : Tag[n] = "program"}
Files    == {Filename[n] : n \in Programs}

(* An image: its whole sectors, and whether there is a part of one more.   *)
(* An image that is missing or empty has neither.                          *)
Image == [full : 0..MaxSectors, rest : BOOLEAN]

FixupMutant(image) == image.full

(* num_partition_sectors = filesize / size, plus one if there is a rest.   *)
FixupProgramCmd(image) == image.full + (IF image.rest THEN 1 ELSE 0)

(* The sectors of one write: what fread returned, its last sector filled   *)
(* up with zeros. "filesend" have been sent of the image, "most" is the    *)
(* smaller of persize and the programmer's payload.                        *)
Reads(image, filesend, most) ==
    IF filesend + most <= image.full
    THEN most
    ELSE (image.full - filesend) + (IF image.rest THEN 1 ELSE 0)

(* usbfs_bulk_write: what one write takes.                                 *)
UsbfsBulkWrite(many) == IF many > MaxBulk THEN MaxBulk ELSE many

(* "filesend < filesize", in bytes.                                        *)
MoreToSend(image, filesend) ==
    filesend < image.full \/ (filesend = image.full /\ image.rest)
=============================================================================
