------------------------------- MODULE Codec -------------------------------
(***************************************************************************)
(* The Content-Length framing of codec.rs.                                 *)
(*                                                                         *)
(* The bytes of a stream come in units: CR and LF, a header line's text, a *)
(* half of a JSON object, a byte that is not UTF-8.  The decoder looks for *)
(* nothing smaller than the four bytes that end a header, which are units  *)
(* of their own, so splitting a header's text would show nothing more.     *)
(* Lengths count units; MaxUsize is usize::MAX.                            *)
(***************************************************************************)
EXTENDS Integers, Sequences, SequencesExt

CONSTANT MaxUsize
ASSUME MaxUsizeAssumption == MaxUsize \in Nat

Cr == [is |-> "cr"]
Lf == [is |-> "lf"]
ContentLength(n) == [is |-> "length", n |-> n]
Header  == [is |-> "header"]   \* another `key: value`
Word    == [is |-> "word"]     \* a text without colon
NotUtf8 == [is |-> "binary"]
Open(m)  == [is |-> "open", message |-> m]    \* holds the object's first colon
Close(m) == [is |-> "close", message |-> m]

NoLength == -1   \* a Content-Length that does not parse as a usize

CrLf == <<Cr, Lf>>
EndOfHeader == CrLf \o CrLf

Encode(body) == <<ContentLength(Len(body))>> \o EndOfHeader \o body

(* Where w begins in s. *)
Places(s, w) == {i \in 1..(Len(s) - Len(w) + 1) : SubSeq(s, i, i + Len(w) - 1) = w}

(* header.split("\r\n"): each line at the place where it begins. *)
Lines(h) ==
  LET breaks == Places(h, CrLf)
      to(i)  == Min({b \in breaks : b >= i} \cup {Len(h) + 1}) - 1
  IN  [i \in {1} \cup {b + 2 : b \in breaks} |-> SubSeq(h, i, to(i))]

(* What trim() leaves. *)
Text(s)  == {i \in DOMAIN s : s[i] \notin {Cr, Lf}}
Start(s) == s[Min(Text(s))]

ColonMissing(line) ==
  line # <<>> /\ \A i \in DOMAIN line : line[i].is \notin {"length", "header", "open"}

(* The key before the first colon is content-length... *)
SetsLength(line) == Text(line) # {} /\ Start(line).is = "length"
(* ...and this is what parsing the rest of the line gives. *)
LengthOn(line) == IF Text(line) = {Min(Text(line))} THEN Start(line).n ELSE NoLength

(* The last Content-Length counts, also one that does not parse. *)
Declared(lines) ==
  LET setting == {i \in DOMAIN lines : SetsLength(lines[i])} IN
  IF setting = {} THEN NoLength ELSE LengthOn(lines[Max(setting)])

(* Mutant: the header ends at the last blank line received. *)
LastHeaderEnd(ends) == Max(ends)

HeaderEnd(ends) == Min(ends)

(* Mutant: buf.clear() instead of draining it. *)
Cleared(buf, n) == <<>>

Drained(buf, n) == SubSeq(buf, n + 1, Len(buf))

(* next_message: what it returns, the body, and what stays in the buffer. *)
Decode(buf) ==
  LET ends  == Places(buf, EndOfHeader)
      start == HeaderEnd(ends) + 3
      lines == Lines(SubSeq(buf, 1, start - 4))
      len   == Declared(lines)
      is(what, body, rest) == [what |-> what, body |-> body, rest |-> rest]
  IN  IF ends = {} THEN is("more", <<>>, buf)
      ELSE IF \/ NotUtf8 \in ToSet(SubSeq(buf, 1, start - 4))
              \/ \E i \in DOMAIN lines : ColonMissing(lines[i])
              \/ len \notin 0..MaxUsize
           THEN is("error", <<>>, Drained(buf, start))
      ELSE IF start + len > MaxUsize THEN is("panic", <<>>, buf)
      ELSE IF Len(buf) < start + len THEN is("more", <<>>, buf)
      ELSE is("message", SubSeq(buf, start + 1, start + len), Drained(buf, start + len))
=============================================================================
