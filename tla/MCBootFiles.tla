----------------------------- MODULE MCBootFiles -----------------------------
(* An instance of BootFiles for TLC.                                       *)
EXTENDS BootFiles

\* Two files have the same name; there is no file "x".
MCFiles == {<<"a", "k">>, <<"a", "d">>, <<"b", "d">>, <<"a", "i">>}

MCFilesOf(initrd, root, drive, dir, fifo) ==
    [part \in Range(Part) |->
        CASE part = "kernel" -> <<"a", "k">>
          [] part = "initrd" -> initrd
          [] part = "drive1" -> root
          [] part = "drive2" -> drive
          [] OTHER -> IF part \in fifo THEN <<dir, part>> ELSE Absent]

\* A kernel linked under its own name or under that of the initrd, with or
\* without an initrd, a second drive and the FIFOs; some that have an initrd or
\* nothing for a root drive; some that are not validated, with FIFOs elsewhere.
MCConfig ==
    {[kernel_name |-> name, disable_validation |-> FALSE,
      files |-> MCFilesOf(initrd, <<"a", "d">>, drive, "a", fifo)] :
        name \in {"k", "i"}, initrd \in {Absent, <<"a", "i">>},
        drive \in {Absent, <<"b", "d">>, <<"a", "x">>}, fifo \in {{}, Fifo}}
    \cup
    {[kernel_name |-> "i", disable_validation |-> unchecked,
      files |-> MCFilesOf(initrd, Absent, Absent, "a", {})] :
        initrd \in {Absent, <<"a", "i">>}, unchecked \in BOOLEAN}
    \cup
    {[kernel_name |-> "k", disable_validation |-> TRUE,
      files |-> MCFilesOf(Absent, <<"a", "d">>, Absent, "b", fifo)] :
        fifo \in {{"log_fifo"}, Fifo}}
=============================================================================
