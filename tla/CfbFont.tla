------------------------------- MODULE CfbFont -------------------------------
(***************************************************************************)
(* One run of gen_cfb_font_header.py: the header line declaring the array  *)
(* cfb_font_<name>_<w><h>[elem][b], one element per character code from   *)
(* --first to --last, then FONT_ENTRY_DEFINE.  An element is a glyph cell  *)
(* of args.width x args.height pixels written column by column, each       *)
(* column as height/8 bytes whose bit k is the pixel of row 8*octet + k,   *)
(* set for ink (black) and clear for paper (white).                        *)
(*                                                                         *)
(* Rasterization is PIL's: a font glyph is its size as font.getsize and    *)
(* draw.textsize report it and the pixels its drawing inks inside that     *)
(* box; an input image is its size and its ink after convert("1").         *)
(***************************************************************************)
EXTENDS Integers, Sequences, FiniteSetsExt

CONSTANTS
  First, Last,   \* --first, --last
  Widths,        \* -x values tried
  Heights,       \* -y values tried (argparse: a multiple of 8 from 8 to 120)
  YOffsets,      \* --y-offset values tried
  Glyphs,        \* glyphs a font may render: [w, h, ink]
  Images         \* input images: [w, h, ink]

Chars == First .. Last

ASSUME Heights \subseteq {8 * k : k \in 1 .. 15}
ASSUME \A y \in YOffsets : y >= -7
ASSUME \A g \in Glyphs \cup Images : g.ink \subseteq (0 .. g.w - 1) \X (0 .. g.h - 1)

\* the command line and the input file
Args ==
  [type : {"auto", "font", "image"},   \* -t
   fontExt : BOOLEAN,                  \* input name ends in .otf .otc .ttf .ttc
   width : Widths, height : Heights,
   centerX : BOOLEAN, yoff : YOffsets,
   font : [Chars -> Glyphs],           \* the glyph of each character
   image : Images]

VARIABLES
  args,   \* the run's arguments and input
  pc,     \* "header", "font", "image", "glyphs", "done", "raised"
  decl,   \* dimensions of the declared array: [elem, b]
  i,      \* character code of the next element
  xoff,   \* x_offset of extract_image_glyphs
  out     \* elements written, each a sequence of bytes

vars == <<args, pc, decl, i, xoff, out>>

Init ==
  /\ args \in Args
  /\ pc = "header"
  /\ decl = [elem |-> 0, b |-> 0]
  /\ i = First
  /\ xoff = 0
  /\ out = << >>

\* the pixels of a glyph cell, (column, row)
CellPixels == (0 .. args.width - 1) \X (0 .. args.height - 1)

\* Variant: the first row in the most significant bit.
ColumnByte_msb(cell, col, octet) ==
  MapThenSumSet(LAMBDA k : 2^(7 - k), {k \in 0 .. 7 : cell[<<col, 8 * octet + k>>]})

\* generate_element: one byte per column and octet, bit k from row 8*octet+k
ColumnByte(cell, col, octet) ==
  MapThenSumSet(LAMBDA k : 2^k, {k \in 0 .. 7 : cell[<<col, 8 * octet + k>>]})

generate_element(cell) ==
  LET n == args.height \div 8
  IN  [k \in 1 .. args.width * n |-> ColumnByte(cell, (k - 1) \div n, (k - 1) % n)]

\* -t font, or -t auto with a font file extension
FontInput == args.type = "font" \/ (args.type = "auto" /\ args.fontExt)

(***************************************************************************)
(* generate_header: the array declaration, [last-first+1][width/8*height], *)
(* then the input dispatched by -t or, for "auto", by the file extension.  *)
(***************************************************************************)
WriteHeader ==
  /\ pc = "header"
  /\ decl' = [elem |-> Last - First + 1, b |-> (args.width * args.height) \div 8]
  /\ pc' = IF FontInput THEN "font" ELSE "image"
  /\ UNCHANGED <<args, i, xoff, out>>

\* Variant: the height rounded down to whole bytes.
MeasureFont_floor ==
  LET fw_max == Max({0} \cup {args.font[c].w : c \in Chars})
      fh_max == Max({0} \cup {args.font[c].h : c \in Chars})
      height == 8 * ((fh_max + args.yoff) \div 8)
  IN  /\ pc = "font"
      /\ pc' = IF fw_max = args.width /\ height = args.height
               THEN "glyphs" ELSE "raised"
      /\ UNCHANGED <<args, decl, i, xoff, out>>

\* extract_font_glyphs: the bounding box over all glyphs, with the height
\* rounded up to whole bytes, must be the -x/-y cell or the run raises
MeasureFont ==
  LET fw_max == Max({0} \cup {args.font[c].w : c \in Chars})
      fh_max == Max({0} \cup {args.font[c].h : c \in Chars})
      height == 8 * ((fh_max + args.yoff + 7) \div 8)
  IN  /\ pc = "font"
      /\ pc' = IF fw_max = args.width /\ height = args.height
               THEN "glyphs" ELSE "raised"
      /\ UNCHANGED <<args, decl, i, xoff, out>>

\* where draw.text places a glyph of width fw; PIL takes a half-pixel
\* position to either neighbouring pixel
XPos(fw) ==
  IF args.centerX
  THEN {(args.width - fw) \div 2 + 1, (args.width - fw + 1) \div 2 + 1}
  ELSE {0}

\* The glyph drawn at (x, y_offset) on a white cell, clipped to the cell;
\* a pixel is TRUE when inked.
Drawn(g, x) == [p \in CellPixels |-> <<p[1] - x, p[2] - args.yoff>> \in g.ink]

\* One iteration of the drawing loop of extract_font_glyphs.
FontGlyph ==
  /\ pc = "glyphs"
  /\ i <= Last
  /\ \E x \in XPos(args.font[i].w) :
       out' = Append(out, generate_element(Drawn(args.font[i], x)))
  /\ i' = i + 1
  /\ UNCHANGED <<args, pc, decl, xoff>>

\* image.crop beyond the image's edge reads black (ink) pixels
Cropped(img, x0) ==
  [p \in CellPixels |->
     IF x0 + p[1] < img.w /\ p[2] < img.h THEN <<x0 + p[1], p[2]>> \in img.ink
                                          ELSE TRUE]

\* Variant: the loop runs to --last + 1.
ImageGlyph_pastlast ==
  /\ pc = "image"
  /\ i <= Last + 1
  /\ out' = Append(out, generate_element(Cropped(args.image, xoff)))
  /\ xoff' = xoff + args.width
  /\ i' = i + 1
  /\ UNCHANGED <<args, pc, decl>>

\* One iteration of extract_image_glyphs: the next args.width columns.
ImageGlyph ==
  /\ pc = "image"
  /\ i <= Last
  /\ out' = Append(out, generate_element(Cropped(args.image, xoff)))
  /\ xoff' = xoff + args.width
  /\ i' = i + 1
  /\ UNCHANGED <<args, pc, decl>>

\* both loops end after --last; FONT_ENTRY_DEFINE closes the file
WriteFooter ==
  /\ pc \in {"glyphs", "image"}
  /\ i = Last + 1
  /\ pc' = "done"
  /\ UNCHANGED <<args, decl, i, xoff, out>>

Terminated == pc \in {"done", "raised"} /\ UNCHANGED vars

Next ==
  \/ WriteHeader \/ MeasureFont \/ FontGlyph \/ ImageGlyph \/ WriteFooter
  \/ Terminated

\* The script runs to completion.
Spec == Init /\ [][Next]_vars /\ WF_vars(Next)

-----------------------------------------------------------------------------
TypeOK ==
  /\ args \in Args
  /\ pc \in {"header", "font", "image", "glyphs", "done", "raised"}
  /\ i \in First .. Last + 1
  /\ Len(out) = i - First
  /\ \A k \in 1 .. Len(out) : \A j \in DOMAIN out[k] : out[k][j] \in 0 .. 255

(***************************************************************************)
(* The reading CFB_FONT_MONO_VPACKED gives an element: pixel (x, y) is the *)
(* bit y % 8 of byte x * height/8 + y \div 8.                              *)
(***************************************************************************)
VPacked(e, x, y) == (e[x * (args.height \div 8) + y \div 8 + 1] \div 2^(y % 8)) % 2 = 1

(***************************************************************************)
(* A finished header declares one element per character from --first to   *)
(* --last, each exactly as long as the declared row, and read as           *)
(* CFB_FONT_MONO_VPACKED the element of character c shows c: its glyph as  *)
(* drawn by extract_font_glyphs, or its args.width-column slice of the     *)
(* input image (the declaration of generate_header, the two extraction     *)
(* loops and the bit packing of generate_element together).                *)
(***************************************************************************)
TableDecodes ==
  pc = "done" =>
    /\ Len(out) = decl.elem
    /\ \A k \in 1 .. Len(out) : Len(out[k]) = decl.b
    /\ \A c \in Chars :
         LET shown == [p \in CellPixels |-> VPacked(out[c - First + 1], p[1], p[2])]
         IN  IF FontInput
             THEN \E x \in XPos(args.font[c].w) : shown = Drawn(args.font[c], x)
             ELSE shown = Cropped(args.image, (c - First) * args.width)

(***************************************************************************)
(* Every pixel of ink a glyph has at or below the top edge of the cell     *)
(* ends up set in the finished element of its character when the glyphs   *)
(* are drawn from column 0: the bounding-box check of extract_font_glyphs  *)
(* (the height rounded up to whole bytes), the drawing at --y-offset and   *)
(* generate_element's packing together lose none of it.  A negative        *)
(* --y-offset cutting the top rows is what the option is for.              *)
(***************************************************************************)
InkKept ==
  (pc = "done" /\ FontInput /\ ~args.centerX) =>
    \A c \in Chars : \A p \in args.font[c].ink :
      p[2] + args.yoff >= 0 => VPacked(out[c - First + 1], p[1], p[2] + args.yoff)

=============================================================================
