------------------------------- MODULE FwImage -------------------------------
(***************************************************************************)
(* The firmware file and the programs that work on it: checksum, miniboot  *)
(* and fwinfo on top of tools/lib/carlfw.c.  A file is a sequence of       *)
(* cells: cells of code, and descriptors, which are records with a magic,  *)
(* a length, the lowest version they are compatible with, their own        *)
(* version and a body.  A checksum is collision-free: it is the pair of    *)
(* its seed and the cells it covers.                                       *)
(*                                                                         *)
(* A store overwrites the file in place, one write after the other, and    *)
(* may be killed or run out of space between any two; between two programs *)
(* a cell of the file may be damaged.                                      *)
(***************************************************************************)
EXTENDS Integers, SequencesExt

CONSTANTS Builds,      \* what is linked: [code, wol, after]
          Mini,        \* the code of the miniboot file
          Tools,       \* subset of {"checksum", "a", "d", "fwinfo"}
          Junk,        \* a damaged or undefined cell of code
          MinSize, MaxSize,  \* CARL9170FW_MIN_SIZE, CARL9170FW_MAX_SIZE in cells
          MaxLoads,    \* bound: programs run
          MaxFaults    \* bound: damaged cells

\* What the linker and the Makefile provide: code before the descriptors, a
\* miniboot file, and a smallest size that is not zero.
ASSUME ImageAssumption ==
    /\ \A b \in Builds : b.code \in Seq(STRING) /\ b.code # <<>> /\ b.after \in Seq(STRING)
    /\ Mini \in Seq(STRING)
    /\ MinSize \in Nat \ {0} /\ MaxSize \in Nat

VARIABLES file,        \* the firmware file
          proc,        \* the program and its struct carlfw
          vouched,     \* history: the contents that a store computed checksums for
          loads, faults

imageVars == <<file, proc, vouched, loads, faults>>

HeadLen == 8
MaxLen  == 8192                             \* CARL9170FW_DESC_MAX_LENGTH

\* CARL9170FW_x_DESC_CUR_VER, _MIN_VER and _SIZE.
Version == [OTAR |-> 7, TXSQ |-> 1, MOTD |-> 2, DBG |-> 3, FIX |-> 2, CHK |-> 2, WOL |-> 1, LAST |-> 2]
Lowest  == [OTAR |-> 6, TXSQ |-> 1, MOTD |-> 1, DBG |-> 1, FIX |-> 1, CHK |-> 1, WOL |-> 1, LAST |-> 1]
Size    == [OTAR |-> 32, TXSQ |-> 12, MOTD |-> 56, DBG |-> 28, FIX |-> 8, CHK |-> 16, WOL |-> 12, LAST |-> 8]

Code(c) == [magic |-> "code", body |-> [text |-> c]]
Desc(magic, body) == [magic |-> magic, length |-> Size[magic], min |-> Lowest[magic],
                      cur |-> Version[magic], body |-> body]
Text(magic, t) == Desc(magic, [text |-> t])   \* a descriptor whose body is not interpreted
IsDesc(d) == d.magic # "code"
Otus(features, size) == Desc("OTAR", [features |-> features, miniboot |-> size])
LastDesc == Text("LAST", "none")

\* The linker puts carl9170fw_desc behind the code, data may follow it.
Cells(text) == [i \in DOMAIN text |-> Code(text[i])]
carl9170fw_desc(wol) ==
    <<Otus({}, 0), Text("TXSQ", "sequence")>> \o (IF wol THEN <<Text("WOL", "triggers")>> ELSE <<>>)
    \o <<Text("MOTD", "release"), Text("DBG", "counter"), LastDesc>>
Linked == {Cells(b.code) \o carl9170fw_desc(b.wol) \o Cells(b.after) : b \in Builds}

\* CHECK_HDR_VERSION() refuses.
Incompatible(d, rev) == d.cur < rev \/ d.min > rev

carl9170fw_desc_cmp(d, magic) ==
    d.magic = magic /\ ~Incompatible(d, Version[magic]) /\ d.length >= Size[magic]

IsCheck(d) == carl9170fw_desc_cmp(d, "CHK")

\* The descriptors that the checksum of the list goes over, up to the i-th: all but
\* the checksums themselves.
Unchecked(descs) ==
    LET kept[i \in 0..Len(descs)] ==
          IF i = 0 THEN <<>>
          ELSE IF IsCheck(descs[i]) THEN kept[i - 1] ELSE Append(kept[i - 1], descs[i])
    IN  kept[Len(descs)]

----------------------------------------------------------------------------
(* Reading a file.                                                         *)

\* __carlfw_find_desc(): the last place with these bytes, 0 if there is none or
\* it is no good; the first byte of the file is never looked at.
Find(f, magic) ==
    LET i == SelectLastInSeq(f, LAMBDA d : d.magic = magic)
    IN  IF i > 1 /\ carl9170fw_desc_cmp(f[i], magic) THEN i ELSE 0

\* carl9170fw_for_each_hdr(): up to the LAST descriptor or a length that makes no sense.
carlfw_parse_descs(f, i) ==
    LET Ends(d) == ~IsDesc(d) \/ d.magic = "LAST" \/ d.length < HeadLen \/ d.length >= MaxLen
        rest    == SubSeq(f, i, Len(f))
    IN  SubSeq(rest, 1, SelectInSeq(rest, Ends) - 1)

find_entry(descs, magic) == SelectInSeq(descs, LAMBDA d : carl9170fw_desc_cmp(d, magic))

crc32(seed, cells) == <<seed, cells>>
ImageCrc(image)        == crc32(<<>>, image)
HeaderCrc(image, descs) == crc32(ImageCrc(image), descs)

\* carlfw_check_crc32s(): a file without a checksum is taken as it is.
CheckAccepts(image, descs) ==
    LET i == find_entry(descs, "CHK")
    IN  \/ i = 0
        \/ descs[i].body = [fw  |-> ImageCrc(image),
                            hdr |-> HeaderCrc(image, Unchecked(descs))]

\* carlfw_load(): the descriptors are cut out of the file, what follows them moves up.
carlfw_load(f) ==
    LET o     == Find(f, "OTAR")
        l     == Find(f, "LAST")
        descs == carlfw_parse_descs(f, o)
        image == SubSeq(f, 1, o - 1) \o SubSeq(f, l + 1, Len(f))
    IN  IF o = 0 \/ l = 0 \/ o > l THEN [err |-> "ENODATA"]
        ELSE IF ~CheckAccepts(image, descs) THEN [err |-> "EINVAL"]
        ELSE [err |-> "none", image |-> image, descs |-> descs]

----------------------------------------------------------------------------
(* Changing it.  p.entries and p.len are desc_list_entries and             *)
(* desc_list_len, counted along with every change of the list.             *)

carlfw_desc_add_tail(p, d) ==
    [p EXCEPT !.descs = Append(@, d), !.entries = @ + 1, !.len = @ + d.length]

carlfw_desc_del(p, i) ==
    [p EXCEPT !.descs = RemoveAt(@, i), !.entries = @ - 1, !.len = @ - p.descs[i].length]

\* A faulty variant of the next one: the old checksum stays.
KeepOldCheck(p) ==
    carlfw_desc_add_tail(p, Desc("CHK", [fw  |-> ImageCrc(p.image), hdr |-> HeaderCrc(p.image, p.descs)]))

carlfw_apply_checksums(p) ==
    LET i == find_entry(p.descs, "CHK")
        q == IF i = 0 THEN p ELSE carlfw_desc_del(p, i)
    IN  carlfw_desc_add_tail(q, Desc("CHK", [fw  |-> ImageCrc(q.image),
                                             hdr |-> HeaderCrc(q.image, q.descs)]))

carl9170fw_size_check(n) == n \in MinSize..MaxSize

\* carlfw_mod_headroom() with len < 0: it copies from before the buffer, so that
\* what arrives first is whatever lies there.
Cut(image, n) == [i \in 1..(Len(image) - n) |-> IF i <= n THEN Code(Junk) ELSE image[i - n]]

\* add_mini(): the descriptor, then the room; FALSE if it is not stored.
CanAdd(p) ==
    LET i == find_entry(p.descs, "OTAR")
    IN  /\ i # 0 /\ "MINIBOOT" \notin p.descs[i].body.features
        /\ carl9170fw_size_check(Len(p.image) + Len(Mini))

add_mini(p) ==
    LET i == find_entry(p.descs, "OTAR")
    IN  [p EXCEPT !.descs[i].body.features = @ \cup {"MINIBOOT"},
                  !.descs[i].body.miniboot = Len(Mini),
                  !.image = Cells(Mini) \o @]

CanDel(p) ==
    LET i == find_entry(p.descs, "OTAR")
    IN  /\ i # 0 /\ "MINIBOOT" \in p.descs[i].body.features
        /\ carl9170fw_size_check(Len(p.image) - p.descs[i].body.miniboot)

del_mini(p) ==
    LET i == find_entry(p.descs, "OTAR")
    IN  [p EXCEPT !.descs[i].body.features = @ \ {"MINIBOOT"},
                  !.descs[i].body.miniboot = 0,
                  !.image = Cut(@, p.descs[i].body.miniboot)]

\* What fwinfo says of a descriptor: its kind if it knows it.
Shown(d) ==
    IF \E m \in DOMAIN Version : carl9170fw_desc_cmp(d, m) THEN d.magic ELSE "unknown"

\* carlfw_desc_next() from the head of the list to its tail.
fwinfo(p) == [i \in DOMAIN p.descs |-> Shown(p.descs[i])]

----------------------------------------------------------------------------
(* The programs.                                                           *)

NoProgram == [pc |-> "off"]

ImageInit == file \in Linked /\ proc = NoProgram /\ vouched = {} /\ loads = 0 /\ faults = 0

\* One entry of the list after the other.
WithDescs(p, descs) ==
    LET read[i \in 0..Len(descs)] ==
          IF i = 0 THEN p ELSE carlfw_desc_add_tail(read[i - 1], descs[i])
    IN  read[Len(descs)]

Opened(tool, f) ==
    LET r == carlfw_load(f)
    IN  IF r.err # "none" THEN [pc |-> "refused", err |-> r.err]
        ELSE WithDescs([pc |-> "loaded", tool |-> tool, image |-> r.image, descs |-> <<>>,
                        entries |-> 0, len |-> 0, todo |-> <<>>], r.descs)

Load ==
    /\ proc = NoProgram /\ loads < MaxLoads
    /\ \E tool \in Tools : proc' = Opened(tool, file)
    /\ loads' = loads + 1
    /\ UNCHANGED <<file, vouched, faults>>

\* carlfw_store() up to fopen(), which empties the file.
Store(p) ==
    LET q == carlfw_apply_checksums(p)
    IN  /\ proc' = [q EXCEPT !.pc = "write", !.todo = <<q.image>> \o [i \in DOMAIN q.descs |-> <<q.descs[i]>>]
                                                      \o <<<<LastDesc>>>>]
        /\ file' = <<>>
        /\ vouched' = vouched \cup {[image |-> p.image, descs |-> Unchecked(p.descs)]}
        /\ UNCHANGED <<loads, faults>>

Loaded(tool) == proc.pc = "loaded" /\ proc.tool = tool
GiveUp == proc' = NoProgram /\ UNCHANGED <<file, vouched, loads, faults>>

Checksum == Loaded("checksum") /\ Store(proc)
AddMini  == Loaded("a") /\ CanAdd(proc) /\ Store(add_mini(proc))
DelMini  == Loaded("d") /\ CanDel(proc) /\ Store(del_mini(proc))
NoAdd    == Loaded("a") /\ ~CanAdd(proc) /\ GiveUp
NoDel    == Loaded("d") /\ ~CanDel(proc) /\ GiveUp
Show     == Loaded("fwinfo") /\ GiveUp
Refused  == proc.pc = "refused" /\ GiveUp

\* fwrite() of the image, of each descriptor and of the LAST descriptor.
fwrite ==
    /\ proc.pc = "write" /\ proc.todo # <<>>
    /\ file' = file \o Head(proc.todo)
    /\ proc' = [proc EXCEPT !.todo = Tail(@), !.pc = IF Len(proc.todo) = 1 THEN "stored" ELSE @]
    /\ UNCHANGED <<vouched, loads, faults>>

Finish == proc.pc = "stored" /\ GiveUp

\* The program is killed, or a write fails: the rest is not written.  A write that
\* stdio has buffered and that fails in fclose() leaves the same file; carlfw_store()
\* does not look at the result, nor miniboot at that of carlfw_store(), so that the
\* user is told of success.  What the program says is not modelled, the file is.
CutShort == proc.pc = "write" /\ GiveUp

\* One damaged cell: code, or the magic, the length or the body of a descriptor.
BadBodies(b) ==
    CASE "text" \in DOMAIN b     -> {[b EXCEPT !.text = "bad"]}
      [] "miniboot" \in DOMAIN b -> {[b EXCEPT !.miniboot = @ + 1]}
      [] "fw" \in DOMAIN b       -> {[b EXCEPT !.fw = <<>>], [b EXCEPT !.hdr = <<>>]}

Damaged(d) ==
    IF ~IsDesc(d) THEN {Code(Junk)}
    ELSE {[d EXCEPT !.magic = "XXXX"], [d EXCEPT !.length = 0]} \cup {[d EXCEPT !.body = b] : b \in BadBodies(d.body)}

Damage ==
    /\ proc = NoProgram /\ faults < MaxFaults
    /\ \E i \in DOMAIN file : \E d \in Damaged(file[i]) : file' = [file EXCEPT ![i] = d]
    /\ faults' = faults + 1
    /\ UNCHANGED <<proc, vouched, loads>>

ImageNext == \/ Load \/ Checksum \/ AddMini \/ DelMini \/ NoAdd \/ NoDel \/ Show \/ Refused
             \/ fwrite \/ Finish \/ CutShort \/ Damage

ImageSpec == ImageInit /\ [][ImageNext]_imageVars

----------------------------------------------------------------------------

HasFirmware == proc.pc \in {"loaded", "write", "stored"}
Checks(descs) == {i \in DOMAIN descs : IsCheck(descs[i])}

\* The lengths of the descriptors, added up.
TotalLength(descs) ==
    LET sum[i \in 0..Len(descs)] == IF i = 0 THEN 0 ELSE sum[i - 1] + descs[i].length
    IN  sum[Len(descs)]

\* What a program takes from a file with a checksum is what some store computed
\* it for, however many stores were cut short or cells damaged in between.
OnlyVouched ==
    proc.pc = "loaded" /\ Checks(proc.descs) # {} =>
      [image |-> proc.image, descs |-> Unchecked(proc.descs)] \in vouched

\* The counters stand for the list: no descriptor is lost or counted twice.
CountersAgree ==
    HasFirmware => /\ proc.entries = Len(proc.descs)
                   /\ proc.len = TotalLength(proc.descs)

\* A store that ended well can be loaded again and gives back the same image and
\* descriptors, with one checksum at the end; storing that again changes nothing.
RoundTrip ==
    proc.pc = "stored" =>
      LET r == carlfw_load(file)
      IN  /\ r.err = "none" /\ r.image = proc.image /\ r.descs = proc.descs
          /\ Checks(r.descs) = {Len(r.descs)}
          /\ carlfw_apply_checksums(proc).descs = proc.descs

\* A store that was cut short leaves a file that no program takes for a firmware.
CutShortRefused ==
    proc.pc = "write" => carlfw_load(file).err = "ENODATA"

\* What a firmware image tool takes for a checksummed firmware is one, also after
\* a store that was cut short or a damaged cell, and a store keeps all of it.
ImageSound == OnlyVouched /\ CountersAgree /\ RoundTrip /\ CutShortRefused
=============================================================================
