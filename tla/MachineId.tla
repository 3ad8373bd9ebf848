------------------------------ MODULE MachineId ------------------------------
(***************************************************************************)
(* The identity of a machine: the baseboard's serial number in the SMBIOS  *)
(* table (ports/hlm_port_win.c), the text that is hashed and the Base32    *)
(* form of the hash (core/hlm_license.c), and which identity a handle gets *)
(* (core/hlm_ffi.c).  A table is a sequence of bytes, the first at 1.      *)
(***************************************************************************)
EXTENDS Integers, Sequences, FiniteSetsExt

CONSTANTS SerialRoom,  \* bytes of the caller's buffer, 128
          SaneLength   \* an identity of the operating system has at least 8 characters

Unknown == <<>>

\* The first zero at or after p; one past the table when there is none.
ZeroAfter(t, p) == Min({i \in p..Len(t) : t[i] = 0} \cup {Len(t) + 1})

\* Mutant: strings are counted across the end of the set.
SmbiosStringOn(t, at, index) ==
    LET start[i \in 1..index] == IF i = 1 THEN at ELSE ZeroAfter(t, start[i - 1]) + 1
    IN IF index = 0 \/ ZeroAfter(t, start[index]) = Len(t) + 1 THEN Unknown
       ELSE SubSeq(t, start[index], ZeroAfter(t, start[index]) - 1)

\* The index-th string of the set that begins at `at`; an empty string ends the set.
SmbiosString(t, at, index) ==
    LET start[i \in 1..index] == IF i = 1 THEN at ELSE ZeroAfter(t, start[i - 1]) + 1
    IN IF index = 0 \/ \E i \in 1..index : ZeroAfter(t, start[i]) \in {start[i], Len(t) + 1}
       THEN Unknown
       ELSE SubSeq(t, start[index], ZeroAfter(t, start[index]) - 1)

\* Never more than was allocated, whatever length the firmware reports.
Reported(bytes, length) == SubSeq(bytes, 1, Min({length, Len(bytes)}))

\* Structure by structure, each with its strings behind it up to two zeros, until the first baseboard.
BaseboardSerial(t) ==
    LET Ends(p) == {q \in (p + t[p + 1])..(Len(t) - 1) : t[q] = 0 /\ t[q + 1] = 0}
        Sound(p) == p + 3 <= Len(t) /\ t[p + 1] \in 4..(Len(t) - p + 1) /\ Ends(p) # {}
        Serial(p) == LET s == SmbiosString(t, p + t[p + 1], t[p + 7])
                     IN IF Len(s) < SerialRoom THEN s ELSE Unknown
        from[p \in 1..(Len(t) + 1)] ==
            CASE ~ Sound(p)                              -> Unknown
              [] Sound(p) /\ t[p] = 2 /\ t[p + 1] > 7    -> Serial(p)
              [] OTHER                                   -> from[Min(Ends(p)) + 2]
    IN from[1]

\* What is hashed: the components with a comma between them.
Comma == 44
Joined(components) ==
    LET text[i \in 1..Len(components)] ==
            IF i = 1 THEN components[1] ELSE text[i - 1] \o <<Comma>> \o components[i]
    IN text[Len(components)]

\* Five bits at a time from the first byte's top, the last group filled with zeros.
Crockford(bytes) ==
    LET Byte(i) == IF i < Len(bytes) THEN bytes[i + 1] ELSE 0
        Chunk(bit) == ((Byte(bit \div 8) * 256 + Byte(bit \div 8 + 1)) \div 2 ^ (11 - (bit % 8))) % 32
    IN [g \in 1..((Len(bytes) * 8 + 4) \div 5) |-> Chunk(5 * (g - 1))]

(***************************************************************************)
(* What the operating system calls the machine: the first of two files on  *)
(* Linux (port_posix.c), a value of the registry on Windows.               *)
(***************************************************************************)
Trailing == {10, 13, 32}

\* A file that cannot be opened is Unknown; of a long one the buffer holds the beginning.
FileIdentity(bytes) ==
    LET read == SubSeq(bytes, 1, Min({Len(bytes), SerialRoom - 1}))
        kept == {i \in DOMAIN read : read[i] \notin Trailing}
    IN IF kept = {} THEN Unknown ELSE SubSeq(read, 1, Max(kept))

\* What is read is used as a C string.
CString(bytes) == SubSeq(bytes, 1, ZeroAfter(bytes, 1) - 1)

LinuxMachineId(files) ==
    LET sane == {i \in DOMAIN files : Len(FileIdentity(files[i])) >= SaneLength}
    IN IF sane = {} THEN Unknown ELSE CString(FileIdentity(files[Min(sane)]))

\* A string of the registry that fits, with or without the NUL it may lack.
MachineGuid(value) ==
    IF value.type # "REG_SZ" \/ Len(value.bytes) > SerialRoom - 1 THEN Unknown
    ELSE IF Len(CString(value.bytes)) >= SaneLength THEN CString(value.bytes) ELSE Unknown

\* v1 is <<serial, cpu>>, v2 <<MachineGuid>>; Unknown where Windows does not tell.  No identity: no handle.
ChooseIdentity(v1, v2) ==
    CASE v2 # Unknown                 -> [id |-> v2, legacy |-> v1]
      [] v2 = Unknown /\ v1 # Unknown -> [id |-> v1, legacy |-> Unknown]
      [] v2 = Unknown /\ v1 = Unknown -> Unknown
=============================================================================
