----------------------------- MODULE BootSector -----------------------------
(***************************************************************************)
(* The boot sector (mini-kernel/boot/bootsector.S) as the build makes it:  *)
(* bootsector.S is assembled but never linked, objcopy takes its .text as  *)
(* it is, so every label is an offset from Origin.  Near jumps and calls   *)
(* are relative; far jumps and the addresses of data are not, and what     *)
(* they reach depends on the segment they are used with.                   *)
(*                                                                         *)
(* The BIOS is external: it loads the sector at 0000:7c00, reads disks and *)
(* prints characters.                                                      *)
(***************************************************************************)
EXTENDS Naturals, Sequences

CONSTANTS
    Origin,     \* where the sector is linked to run; the build does not say, 0
    Offset,     \* the labels of the section, as offsets from its start
    Drives      \* the drive numbers the BIOS may hand over in dl

(* STAGE2_SEGMENT and STAGE2_OFFSET, and the load address of the BIOS      *)
Stage2Segment == 2048
Stage2Offset  == 0
LoadAddress   == 31744

Code == {"boot_sector_start", "boot_entry"}
Data == {"boot_message", "ok_message", "disk_error_message", "boot_drive"}

VARIABLES
    at,         \* what the processor executes next, by its label
    ds,         \* the data segment
    dl, drive,  \* the register and boot_drive
    screen,     \* the texts printed
    loaded      \* stage2 is at its address

vars == <<at, ds, dl, drive, screen, loaded>>

Physical(segment, offset) == segment * 16 + offset

(* The address an instruction names, and the label it belongs to           *)
Address(label) == Origin + Offset[label]
Labelled(labels, physical) ==
    {label \in labels : LoadAddress + Offset[label] = physical}

(* Where a far jump ends up; "elsewhere" is memory nobody put code in.     *)
FarJump(segment, offset) ==
    LET physical == Physical(segment, offset) IN
    IF physical = Physical(Stage2Segment, Stage2Offset) /\ loaded THEN "stage2"
    ELSE IF Labelled(Code, physical) = {} THEN "elsewhere"
    ELSE CHOOSE label \in Labelled(Code, physical) : TRUE

(* print_string shows what is at ds:si.                                    *)
PrintString(segment, label) ==
    LET physical == Physical(segment, Address(label)) IN
    screen' = Append(screen,
        IF Labelled(Data, physical) = {} THEN "garbage"
        ELSE CHOOSE text \in Labelled(Data, physical) : TRUE)

Init ==
    /\ at = "boot_sector_start"
    /\ ds = 0 /\ dl \in Drives /\ drive = 0
    /\ screen = << >> /\ loaded = FALSE

Start ==
    /\ at = "boot_sector_start"
    /\ at' = FarJump(0, Address("boot_entry"))
    /\ UNCHANGED <<ds, dl, drive, screen, loaded>>

(* Segments, the drive and the greeting.  The store to boot_drive goes     *)
(* through ds as well.                                                     *)
BootEntry ==
    /\ at = "boot_entry"
    /\ ds' = 1984
    /\ drive' = IF Labelled(Data, Physical(ds', Address("boot_drive"))) = {"boot_drive"}
                THEN dl ELSE drive
    /\ PrintString(ds', "boot_message")
    /\ at' = "read"
    /\ UNCHANGED <<dl, loaded>>

(* int 13h, once; on success stage2 is entered with a far jump.            *)
ReadDisk ==
    /\ at = "read"
    /\ dl' = drive
    /\ \/ /\ loaded' = TRUE
          /\ PrintString(ds, "ok_message")
          /\ at' = "jump"
       \/ /\ PrintString(ds, "disk_error_message")
          /\ at' = "halt_loop"
          /\ UNCHANGED loaded
    /\ UNCHANGED <<ds, drive>>

JumpToStage2 ==
    /\ at = "jump"
    /\ at' = FarJump(Stage2Segment, Stage2Offset)
    /\ UNCHANGED <<ds, dl, drive, screen, loaded>>

Next == Start \/ BootEntry \/ ReadDisk \/ JumpToStage2

Spec == Init /\ [][Next]_vars

-----------------------------------------------------------------------------
(* The sector's code leads to stage2 or to its own halt loop and nowhere   *)
(* else (docs/boot.md: "jumps to `0800:0000`"), having shown nothing but   *)
(* its own messages and kept the drive it was started from.                *)
StaysOnCourse ==
    /\ at # "elsewhere"
    /\ \A i \in 1..Len(screen) : screen[i] # "garbage"
    /\ at = "stage2" => loaded /\ dl = drive
=============================================================================
