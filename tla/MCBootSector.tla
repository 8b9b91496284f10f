---------------------------- MODULE MCBootSector ----------------------------
(* The offsets the assembler gives the labels.                             *)
EXTENDS BootSector

MCOffset ==
    [boot_sector_start |-> 0, boot_entry |-> 5, boot_drive |-> 93,
     boot_message |-> 94, ok_message |-> 119, disk_error_message |-> 135]
=============================================================================
