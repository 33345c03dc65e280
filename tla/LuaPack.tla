------------------------------ MODULE LuaPack ------------------------------
(***************************************************************************)
(* string.pack, string.packsize and string.unpack (lstrlib.c).  A format   *)
(* is a sequence of options [opt, num], num is 'none' without a numeral;   *)
(* a byte has NB bits and an integer of Lua SZINT bytes.                   *)
(***************************************************************************)
EXTENDS Integers, Sequences, SequencesExt

CONSTANTS none, error,
          NB, SZINT,          \* bits of a byte, bytes of an integer
          MAXINTSIZE,         \* bytes of the longest integer
          MAX_SIZE

sizeof == [b |-> 1, B |-> 1, h |-> 1, H |-> 1, l |-> SZINT, L |-> SZINT, j |-> SZINT, J |-> SZINT, T |-> SZINT,
           f |-> 1, n |-> SZINT, d |-> SZINT, i |-> SZINT, I |-> SZINT, s |-> SZINT]
MAXALIGN == SZINT
Native == TRUE                \* the machine is little endian
Word(size) == 2 ^ (NB * size)
Signed(n) == IF n >= Word(SZINT) \div 2 THEN n - Word(SZINT) ELSE n
Ordered(bytes, islittle) == IF islittle = Native THEN bytes ELSE Reverse(bytes)
------------------------------------------------------------------------------
(* ---- options: [kind, size, align, h] or [kind |-> error] ---- *)
getnum(o, df) == IF o.num = none THEN df ELSE o.num
initheader == [islittle |-> Native, maxalign |-> 1]
Option(kind, size, h) == [kind |-> kind, size |-> size, h |-> h]
Wrong == Option(error, 0, initheader)
Sized(kind, o, df, h) == IF getnum(o, df) \in 1..MAXINTSIZE THEN Option(kind, getnum(o, df), h) ELSE Wrong

getoption(h, o) ==
  CASE o.opt \in {"b", "h", "l", "j"}      -> Option("int", sizeof[o.opt], h)
    [] o.opt \in {"B", "H", "L", "J", "T"} -> Option("uint", sizeof[o.opt], h)
    [] o.opt \in {"f", "n", "d"} -> Option("float", sizeof[o.opt], h)
    [] o.opt = "i" -> Sized("int", o, sizeof["i"], h)
    [] o.opt = "I" -> Sized("uint", o, sizeof["I"], h)
    [] o.opt = "s" -> Sized("string", o, sizeof["s"], h)
    [] o.opt = "c" -> IF o.num = none THEN Wrong ELSE Option("char", o.num, h)
    [] o.opt = "z" -> Option("zstr", 0, h)
    [] o.opt = "x" -> Option("padding", 1, h)
    [] o.opt = "X" -> Option("paddalign", 0, h)
    [] o.opt = " " -> Option("nop", 0, h)
    [] o.opt = "<" -> Option("nop", 0, [h EXCEPT !.islittle = TRUE])
    [] o.opt = ">" -> Option("nop", 0, [h EXCEPT !.islittle = FALSE])
    [] o.opt = "=" -> Option("nop", 0, [h EXCEPT !.islittle = Native])
    [] o.opt = "!" -> IF getnum(o, MAXALIGN) \in 1..MAXINTSIZE
                      THEN Option("nop", 0, [h EXCEPT !.maxalign = getnum(o, MAXALIGN)]) ELSE Wrong
    [] OTHER -> Wrong

ispow2(n) == n \in {1, 2, 4, 8, 16}
Least(x, y) == IF x <= y THEN x ELSE y
(* The first option of fmt, the alignment it needs and what follows it;     *)
(* 'X' takes its alignment from the option after it, which it consumes.     *)
Aligned(opt, align, total, fmt) ==
  LET a == Least(align, opt.h.maxalign) IN
  CASE opt.kind = error -> [opt |-> opt, ntoalign |-> 0, fmt |-> fmt]
    [] opt.kind # error /\ (align <= 1 \/ opt.kind = "char") -> [opt |-> opt, ntoalign |-> 0, fmt |-> fmt]
    [] OTHER -> IF ispow2(a) THEN [opt |-> opt, ntoalign |-> (a - (total % a)) % a, fmt |-> fmt]
                ELSE [opt |-> Wrong, ntoalign |-> 0, fmt |-> fmt]
Followed(opt, next, total, fmt) ==
  IF next.kind \in {error, "char"} \/ next.size = 0 THEN Aligned(Wrong, 0, total, fmt)
  ELSE Aligned([opt EXCEPT !.h = next.h], next.size, total, Tail(fmt))
getdetails(h, total, fmt) ==
  IF fmt[1].opt # "X" THEN Aligned(getoption(h, fmt[1]), getoption(h, fmt[1]).size, total, Tail(fmt))
  ELSE IF Len(fmt) = 1 THEN Aligned(Wrong, 0, total, <<>>)
  ELSE Followed(getoption(h, fmt[1]), getoption(h, fmt[2]), total, Tail(fmt))
------------------------------------------------------------------------------
(* ---- packing ---- *)
PackintZeros(n, islittle, size, neg) ==       \* does not extend the sign
  Ordered([i \in 1..size |-> ((n % Word(SZINT)) \div Word(i - 1)) % Word(1)] \o <<>>, islittle)
packint(n, islittle, size, neg) ==
  LET u == n % Word(SZINT) IN
  Ordered([i \in 1..size |-> IF i <= SZINT THEN (u \div Word(i - 1)) % Word(1)
                             ELSE IF neg THEN Word(1) - 1 ELSE 0] \o <<>>, islittle)
(* The bytes of the value v for an option, or error.                        *)
Item(opt, v) ==
  LET size == opt.size IN
  CASE opt.kind = "int"    -> IF size < SZINT /\ ~(-(Word(size) \div 2) <= v /\ v < Word(size) \div 2) THEN error
                              ELSE packint(v, opt.h.islittle, size, v < 0)
    [] opt.kind = "uint"   -> IF size < SZINT /\ v % Word(SZINT) >= Word(size) THEN error
                              ELSE packint(v, opt.h.islittle, size, FALSE)
    [] opt.kind = "float"  -> Ordered(v, opt.h.islittle)
    [] opt.kind = "char"   -> IF Len(v) > size THEN error ELSE v \o [i \in 1..size - Len(v) |-> 0]
    [] opt.kind = "string" -> IF size < SZINT /\ Len(v) >= Word(size) THEN error
                              ELSE packint(Len(v), opt.h.islittle, size, FALSE) \o v
    [] opt.kind = "zstr"   -> IF 0 \in Range(v) THEN error ELSE Append(v, 0)

IsItem(kind) == kind \in {"int", "uint", "float", "char", "string", "zstr"}
Pad(n) == [i \in 1..n |-> 0]
RECURSIVE Pack(_, _, _, _)
Packed(item, out, d, args) == IF item = error THEN error ELSE Pack(out \o Pad(d.ntoalign) \o item, d.opt.h, d.fmt, args)
PackOption(out, d, args) ==
  CASE d.opt.kind = error \/ d.opt.size + d.ntoalign > MAX_SIZE - Len(out) \/ (IsItem(d.opt.kind) /\ args = <<>>) -> error
    [] OTHER -> IF IsItem(d.opt.kind) THEN Packed(Item(d.opt, args[1]), out, d, Tail(args))
                ELSE Packed(Pad(d.opt.size), out, d, args)
Pack(out, h, fmt, args) == IF fmt = <<>> THEN out ELSE PackOption(out, getdetails(h, Len(out), fmt), args)
str_pack(fmt, args) == Pack(<<>>, initheader, fmt, args)

RECURSIVE Packsize(_, _, _)
SizeOption(total, d) ==
  IF d.opt.kind \in {error, "string", "zstr"} \/ d.opt.size + d.ntoalign > MAX_SIZE - total THEN error
  ELSE Packsize(total + d.ntoalign + d.opt.size, d.opt.h, d.fmt)
Packsize(total, h, fmt) == IF fmt = <<>> THEN total ELSE SizeOption(total, getdetails(h, total, fmt))
str_packsize(fmt) == Packsize(0, initheader, fmt)
------------------------------------------------------------------------------
(* ---- unpacking: 'bytes' are in the native order ---- *)
RECURSIVE Number(_)
Number(bytes) == IF bytes = <<>> THEN 0 ELSE bytes[1] + Word(1) * Number(Tail(bytes))
Extra(bytes) == {bytes[i] : i \in SZINT + 1..Len(bytes)}
unpackint(bytes, issigned) ==
  LET size == Len(bytes)
      res  == Number(SubSeq(bytes, 1, Least(size, SZINT)))
      mask == IF ~issigned \/ Signed(res) >= 0 THEN 0 ELSE Word(1) - 1
  IN IF size < SZINT THEN (IF issigned /\ res >= Word(size) \div 2 THEN res - Word(size) ELSE res)
     ELSE IF Extra(bytes) \subseteq {mask} THEN Signed(res) ELSE error

(* The value at data[pos + 1..] and where it ends, <<error, 0>> for none.   *)
None == <<error, 0>>
Counted(data, at, len) ==     \* a string after its length, an unsigned number
  IF len = error THEN None
  ELSE IF len % Word(SZINT) <= Len(data) - at THEN <<SubSeq(data, at + 1, at + (len % Word(SZINT))), at + (len % Word(SZINT))>>
  ELSE None
ItemAt(opt, data, pos) ==
  LET end   == pos + opt.size
      bytes == SubSeq(data, pos + 1, end)
      zeros == {i \in pos + 1..Len(data) : data[i] = 0}
      zero  == CHOOSE i \in zeros : \A j \in zeros : i <= j
  IN CASE opt.kind \in {"int", "uint"} -> <<unpackint(Ordered(bytes, opt.h.islittle), opt.kind = "int"), end>>
       [] opt.kind = "float"  -> <<Ordered(bytes, opt.h.islittle), end>>
       [] opt.kind = "char"   -> <<bytes, end>>
       [] opt.kind = "string" -> Counted(data, end, unpackint(Ordered(bytes, opt.h.islittle), FALSE))
       [] opt.kind = "zstr"   -> IF zeros = {} THEN None ELSE <<SubSeq(data, pos + 1, zero - 1), zero>>

RECURSIVE Unpack(_, _, _, _, _)
Unpacked(item, list, d, data) ==
  IF item[1] = error THEN error ELSE Unpack(data, item[2], d.opt.h, d.fmt, Append(list, item[1]))
UnpackOption(data, pos, d, list) ==
  CASE d.opt.kind = error \/ d.ntoalign + d.opt.size > Len(data) - pos -> error
    [] OTHER -> IF IsItem(d.opt.kind) THEN Unpacked(ItemAt(d.opt, data, pos + d.ntoalign), list, d, data)
                ELSE Unpack(data, pos + d.ntoalign + d.opt.size, d.opt.h, d.fmt, list)
Unpack(data, pos, h, fmt, list) ==
  IF fmt = <<>> THEN [values |-> list, next |-> pos + 1] ELSE UnpackOption(data, pos, getdetails(h, pos, fmt), list)
str_unpack(fmt, data) == Unpack(data, 0, initheader, fmt, <<>>)
=============================================================================
