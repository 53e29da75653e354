-------------------------------- MODULE Stdio --------------------------------
(***************************************************************************)
(* The buffered streams of the user library (lib/user/stdio_*.c): one      *)
(* FILE over one open file of the kernel.  The kernel's file is external:  *)
(* a position, bytes, and a size beyond which a write is short.  Beside    *)
(* the stream the model keeps what a program is told: the text it has      *)
(* written, and its own position in it.                                    *)
(***************************************************************************)
EXTENDS Integers, Sequences, FiniteSets

CONSTANTS STDIO_BUFSIZ,
          Bytes, Newline,       \* the bytes written; one of them ends a line
          MaxFile,              \* a write beyond this size is short
          StdioFiles,           \* the contents a file may have at fopen
          MaxStdioOps

VARIABLE fp

NoChar == -1                    \* EOF, and an empty ungetc_buf
Writable(f) == f.mode \in {"w", "a", "r+"}
Overwrite(s, at, t) == [i \in 1 .. (IF at + Len(t) > Len(s) THEN at + Len(t) ELSE Len(s)) |->
                          IF i > at /\ i <= at + Len(t) THEN t[i - at] ELSE s[i]]
Lesser(a, b) == IF a < b THEN a ELSE b
Held(f) == SubSeq(f.data, 1, f.ptr)     \* the bytes between buf and ptr

(* ---------------------------------------------------- the kernel's file *)
sys_write(f, s) == LET n == Lesser(Len(s), MaxFile - f.pos)
                   IN [f EXCEPT !.file = Overwrite(@, f.pos, SubSeq(s, 1, n)), !.pos = @ + n, !.n = n]
sys_read(f, size) == LET n == Lesser(size, Len(f.file) - f.pos)
                     IN [f EXCEPT !.data = Overwrite(@, 0, SubSeq(f.file, f.pos + 1, f.pos + n)), !.pos = @ + n, !.n = n]

(* -------------------------------------------------------- stdio_buf.c *)
Unfilled(n) == [i \in 1 .. n |-> NoChar]
WithBuffer(f, buf, size) == [f EXCEPT !.buf = buf, !.bufsiz = size, !.data = Unfilled(size)]
ensure_buffer(f) ==
    IF f.buf # "null" THEN f
    ELSE [(IF f.nbf \/ f.nomem THEN WithBuffer(f, "small", 1) ELSE WithBuffer(f, "mine", STDIO_BUFSIZ))
          EXCEPT !.ptr = 0, !.cnt = 0]

\* __fillbuf: its answer is in ret.
__fillbuf(f) ==
    IF f.eof THEN [f EXCEPT !.ret = NoChar]
    ELSE LET e == ensure_buffer(f)
             g == sys_read(e, e.bufsiz)
         IN IF g.n = 0 THEN [g EXCEPT !.eof = TRUE, !.ret = NoChar]
            ELSE [g EXCEPT !.ptr = 1, !.cnt = g.n - 1, !.ret = g.data[1]]

\* The bytes held are written; a short write is an error, and keeps them.
Drain(f) == IF f.ptr = 0 THEN [f EXCEPT !.ret = 0]
            ELSE LET g == sys_write(f, Held(f))
                 IN IF g.n # f.ptr THEN [g EXCEPT !.err = TRUE, !.ret = NoChar] ELSE [g EXCEPT !.ret = 0]
fflush(f) ==
    IF ~Writable(f) \/ f.buf = "null" THEN [f EXCEPT !.ret = 0]
    ELSE LET g == Drain(f)
         IN IF g.ret = NoChar THEN g
            ELSE [g EXCEPT !.ptr = 0, !.cnt = g.bufsiz, !.odd = @ \/ f.nbf]

Store(f, c) == [f EXCEPT !.data[f.ptr + 1] = c, !.ptr = @ + 1, !.cnt = @ - 1]
\* A line-buffered stream is flushed at a newline; the flush's answer is dropped.
EndLine(f, c) == [(IF f.lbf /\ c = Newline THEN fflush(f) ELSE f) EXCEPT !.ret = c]
__flushbuf(c, f) ==
    LET e == ensure_buffer(f)
        g == Drain(e)
    IN IF e.nbf THEN LET w == sys_write(e, <<c>>)
                     IN IF w.n # 1 THEN [w EXCEPT !.err = TRUE, !.ret = NoChar] ELSE [w EXCEPT !.ret = c]
       ELSE IF g.ret = NoChar THEN g
       ELSE EndLine(Store([g EXCEPT !.ptr = 0, !.cnt = g.bufsiz], c), c)

(* -------------------------------------------------------- stdio_char.c *)
Take(f) == IF f.cnt > 0 THEN [f EXCEPT !.cnt = @ - 1, !.ptr = @ + 1, !.ret = f.data[f.ptr + 1]] ELSE __fillbuf(f)
fgetc(f) == IF f.ungetc_buf >= 0 THEN [f EXCEPT !.ungetc_buf = NoChar, !.ret = f.ungetc_buf] ELSE Take(f)
fputc(c, f) == IF f.cnt > 0 THEN EndLine(Store(f, c), c) ELSE __flushbuf(c, f)
ungetc(c, f) == IF f.ungetc_buf >= 0 THEN [f EXCEPT !.ret = NoChar]
                ELSE [f EXCEPT !.ungetc_buf = c, !.eof = FALSE, !.ret = c]

(* What the program is told: a byte written or read moves its position.    *)
CharAt(s, at) == IF at + 1 \in DOMAIN s THEN s[at + 1] ELSE NoChar
Wrote(f, c) == IF f.odd \/ f.ret = NoChar THEN f
               ELSE [f EXCEPT !.text = Overwrite(@, f.at, <<c>>), !.at = @ + 1]
Got(f, pushed) == IF f.odd THEN f
                  ELSE IF f.ret = NoChar THEN [f EXCEPT !.right = @ /\ f.at >= Len(f.text)]
                  ELSE [f EXCEPT !.at = @ + 1,
                                 !.right = @ /\ (f.ret = IF pushed # NoChar THEN pushed ELSE CharAt(f.text, f.at))]

RECURSIVE fwrite(_, _)
fwrite(s, f) == IF s = <<>> THEN f
                ELSE LET g == Wrote(fputc(s[1], f), s[1]) IN IF g.ret = NoChar THEN g ELSE fwrite(Tail(s), g)
RECURSIVE fread(_, _)
fread(n, f) == IF n = 0 THEN f
               ELSE LET g == Got(Take(f), NoChar) IN IF g.ret = NoChar THEN g ELSE fread(n - 1, g)

(* --------------------------------------------------------- stdio_pos.c *)
ftell(f) == f.pos - (IF f.mode = "r" THEN f.cnt ELSE 0)
                  + (IF f.mode \in {"w", "a"} /\ f.buf # "null" THEN f.ptr ELSE 0)
                  - (IF f.ungetc_buf >= 0 THEN 1 ELSE 0)
Target(f, g, offset, whence) == CASE whence = "SEEK_SET" -> offset [] whence = "SEEK_CUR" -> ftell(f) + offset
                                  [] whence = "SEEK_END" -> Len(g.file) + offset
fseek(f, offset, whence) ==
    LET g == [fflush(f) EXCEPT !.cnt = 0, !.ptr = 0, !.ungetc_buf = NoChar, !.eof = FALSE]
        pos == Target(f, g, offset, whence)
    IN IF pos < 0 THEN [g EXCEPT !.ret = NoChar, !.odd = @ \/ ftell(f) # g.pos]
       ELSE [g EXCEPT !.pos = pos, !.at = CASE whence = "SEEK_SET" -> offset [] whence = "SEEK_CUR" -> f.at + offset
                                            [] whence = "SEEK_END" -> Len(f.text) + offset, !.ret = 0]

(* --------------------------------------- setvbuf, and stdio_file.c *)
setvbuf(f, buf, mode, size) ==
    IF f.buf # "null" THEN [f EXCEPT !.ret = NoChar]
    ELSE LET g == [f EXCEPT !.lbf = mode = "line", !.nbf = mode = "none", !.ret = 0, !.ptr = 0, !.cnt = 0]
         IN IF mode = "none" THEN WithBuffer(g, "small", 1)
            ELSE IF buf = "user" THEN WithBuffer(g, "user", size) ELSE g

\* fopen: "w" begins with a new file, "a" at the end of an old one.
fopen(mode, data, nomem) ==
    LET file == IF mode = "w" THEN <<>> ELSE data
        start == IF mode = "a" THEN Len(file) ELSE 0
    IN [mode |-> mode, open |-> TRUE, buf |-> "null", bufsiz |-> 0, data |-> <<>>, ptr |-> 0, cnt |-> 0, lbf |-> FALSE,
        nbf |-> FALSE, eof |-> FALSE, err |-> FALSE, ungetc_buf |-> NoChar, ret |-> 0, n |-> 0, nomem |-> nomem,
        file |-> file, pos |-> start, text |-> file, at |-> start, right |-> TRUE, odd |-> mode = "r+", ops |-> MaxStdioOps]
fclose(f) == LET g == IF Writable(f) THEN fflush(f) ELSE f
             IN [g EXCEPT !.open = FALSE, !.buf = IF @ = "mine" THEN "null" ELSE @]

StdioInit == \E mode \in {"r", "w", "a", "r+"}, data \in StdioFiles, nomem \in BOOLEAN : fp = fopen(mode, data, nomem)
Step(f) == fp.open /\ fp.ops > 0 /\ fp' = [f EXCEPT !.ops = @ - 1, !.n = 0, !.ret = 0]
Readable(f) == f.mode \in {"r", "r+"}
StdioNext ==
    \/ Readable(fp) /\ Step(Got(fgetc(fp), fp.ungetc_buf))
    \/ Readable(fp) /\ Step([fread(2, fp) EXCEPT !.odd = @ \/ fp.ungetc_buf # NoChar])
    \/ Readable(fp) /\ fp.at > 0 /\ fp.at <= Len(fp.text)
       /\ Step(LET g == ungetc(fp.text[fp.at], fp) IN [g EXCEPT !.at = IF g.ret = NoChar THEN @ ELSE @ - 1])
    \/ Writable(fp) /\ \E c \in Bytes : Step(Wrote(fputc(c, fp), c))
    \/ Writable(fp) /\ \E c, d \in Bytes : Step(fwrite(<<c, d>>, fp))
    \/ Step(fflush(fp))
    \/ \E w \in {"SEEK_SET", "SEEK_CUR", "SEEK_END"}, o \in -1 .. 1 :
         /\ LET g == fflush(fp) IN Target(fp, g, o, w) <= Len(g.file)      \* no holes
         /\ Step(fseek(fp, o, w))
    \/ \E m \in {"full", "line", "none"}, b \in {"null", "user"} : Step(setvbuf(fp, b, m, 1))
    \/ Step(fclose(fp))

(* ------------------------------------------------------------- properties *)
\* The library never reads or writes outside the stream's buffer, in any mode
\* and after any calls, reads and writes of an update stream mixed (stdio_buf.c).
StreamBounds == fp.open => /\ fp.cnt >= 0 /\ fp.ptr \in 0 .. fp.bufsiz
                           /\ fp.buf # "null" => fp.ptr + fp.cnt <= fp.bufsiz

\* As long as the error flag is not raised, the bytes a program wrote are in the
\* file or will get there: the file with the held bytes laid over it at the
\* kernel's position is the text, and after fclose the file alone is.
WritesKept == Writable(fp) /\ ~fp.err /\ ~fp.odd =>
                  fp.text = Overwrite(fp.file, fp.pos, IF fp.open THEN Held(fp) ELSE <<>>)

\* A byte read is the one at the program's position, across refills, pushed back
\* characters and seeks, and the end is reported only there (__fillbuf, fgetc).
ReadsInOrder == ~fp.odd => fp.right

\* ftell's answer is the program's position, whatever is buffered (stdio_pos.c).
TellExact == fp.open /\ ~fp.err /\ ~fp.odd => ftell(fp) = fp.at

==============================================================================
