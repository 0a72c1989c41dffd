---------------------------- MODULE ProductForm ----------------------------
(***************************************************************************)
(* What the administrator's product form makes of a product and back:      *)
(* productToForm writes a line "color=address" for each picture, the text  *)
(* is edited, and buildProductPayload reads it again.  Pictures are given  *)
(* by color, as one address for all, one for each in order, or as JSON.    *)
(*                                                                         *)
(* A line is the color and the address written in it, and what it is read  *)
(* as depends on the color: "/sky=/a" is an address, "a=b=/a" the color    *)
(* "a".  Sizes, names and descriptions are left out, and of the price all  *)
(* but whether it can be read and is not too high.  Colors hold no commas  *)
(* and are not names every JavaScript object has.  The request and its     *)
(* failures are CatalogConsole's.                                          *)
(***************************************************************************)
EXTENDS Integers, FiniteSets, SequencesExt

CONSTANTS
  Plain,        \* colors that are words
  AddressLike,  \* colors that begin like a path
  WithEquals,   \* colors with an "=" in them
  Address,      \* root-relative paths and HTTP(S) addresses
  Odd,          \* the path that a line of an address-like color is
  Broken,       \* a text that is no address, with a space in it
  NotText,      \* a stored picture that is not a string
  Null,         \* a stored color that is null
  Stem,         \* what stands before the "=" of such a color
  Rows,         \* products the database may hold at first
  MaxPrice,
  MaxEdits      \* bound on edits of the form and updates by others

Color == Plain \union AddressLike \union WithEquals
NoName == "unnamed"
Unreadable == -1
Supported == Address \union {Odd}

\* A product, with colors of a set and for each of some colors a picture.
Products(colors, pictures) ==
  [price : Int, colors : Seq(colors), images : UNION {[names -> pictures] : names \in SUBSET Color}]
Stored == Products(Color \union {Null}, Supported \union {Broken, NotText})
Record == Products(Color, Supported \union {Broken})

\* What is asked of the constants.
FormAssumption ==
  /\ Plain \intersect AddressLike = {} /\ WithEquals \intersect (Plain \union AddressLike) = {}
  /\ Color \intersect {Stem, Null, NoName} = {} /\ Stem # NoName
  /\ {Odd, Broken, NotText} \intersect Address = {} /\ Odd \notin {Broken, NotText}
  /\ Broken # NotText /\ Address # {}
  /\ IsFiniteSet(Color) /\ Rows \subseteq Stored
  /\ MaxPrice \in Nat /\ MaxEdits \in Nat

Line == [name : Color \union {NoName}, to : Supported \union {Broken}]
Cents == {0, MaxPrice, MaxPrice + 1}
Colors == BoundedSeq(Color, 2)

VARIABLES
  row,      \* the product last written
  form,     \* the sheet and its fields
  opened,   \* the product it was opened with
  added,    \* the lines the administrator has written since
  removed,  \* the names whose lines he has taken out
  edits

vars == <<row, form, opened, added, removed, edits>>

\* What a sequence has at a set of its indices, in order.
Picked(seq, indices) ==
  [n \in 1..Cardinality(indices) |->
     seq[CHOOSE i \in indices : Cardinality({j \in indices : j <= i}) = n]]

\* Nulls of old rows and pictures that are no strings are not handed out.
toProductRecord(product) ==
  LET named == {k \in DOMAIN product.images : product.images[k] # NotText}
      kept == {i \in DOMAIN product.colors : product.colors[i] # Null}
  IN  [price |-> product.price, colors |-> Picked(product.colors, kept),
       images |-> [k \in named |-> product.images[k]]]

LinesOf(images) ==
  LET names == SetToSeq(DOMAIN images)
  IN  [i \in DOMAIN names |-> [name |-> names[i], to |-> images[names[i]]]]

ClosedForm == [open |-> FALSE, edits |-> FALSE, colors |-> <<>>, json |-> FALSE,
               lines |-> <<>>, price |-> Unreadable]
Example == CHOOSE p \in Address : TRUE
emptyProductForm ==
  LET colors == SetToSeq(Plain)
  IN  [open |-> TRUE, edits |-> FALSE, colors |-> colors, json |-> FALSE,
       lines |-> [i \in DOMAIN colors |-> [name |-> colors[i], to |-> Example]],
       price |-> Unreadable]
productToForm(product) ==
  [open |-> TRUE, edits |-> TRUE, colors |-> product.colors, json |-> FALSE,
   lines |-> LinesOf(product.images), price |-> product.price]

Init ==
  /\ row \in Rows
  /\ form = ClosedForm
  /\ opened = toProductRecord(row)
  /\ added = {} /\ removed = {}
  /\ edits = 0

-----------------------------------------------------------------------------
(* Reading the pictures *)

\* A line that is one address: alone, or with a color that begins like a path.
IsReference(line) ==
  /\ line.to # Broken
  /\ line.name \in AddressLike \union {NoName}
Referred(line) == IF line.name = NoName THEN line.to ELSE Odd

\* Everything before the first "=" is the color.
PairOf(line) ==
  IF line.name \in WithEquals THEN [name |-> Stem, to |-> Broken] ELSE line

ReferenceLines(lines) == {i \in DOMAIN lines : IsReference(lines[i])}
References(lines) ==
  LET found == Picked(lines, ReferenceLines(lines))
  IN  [i \in DOMAIN found |-> Referred(found[i])]

\* Pairs one after the other: a later one for the same color replaces an earlier.
Gather(pairs, indices) ==
  [c \in {pairs[i].name : i \in indices} |->
     pairs[CHOOSE i \in indices :
             /\ pairs[i].name = c
             /\ \A j \in indices : pairs[j].name = c => j <= i].to]
GatherAll(pairs) == Gather(pairs, DOMAIN pairs)

\* The addresses without a color: one for all colors, or one for each in order.
InOrder(refs, colors) ==
  GatherAll([i \in DOMAIN colors |->
               [name |-> colors[i], to |-> IF Len(refs) = 1 THEN refs[1] ELSE refs[i]]])

Fits(refs, colors) == Len(refs) \in {0, 1, Len(colors)}

ParsedLines(lines, colors) ==
  LET refs == References(lines)
      pairs == Gather([i \in DOMAIN lines |-> PairOf(lines[i])],
                      (DOMAIN lines) \ ReferenceLines(lines))
      given == IF refs = <<>> THEN <<>> ELSE InOrder(refs, colors)
  IN  [c \in DOMAIN pairs \union DOMAIN given |->
         IF c \in DOMAIN given THEN given[c] ELSE pairs[c]]

\* The text can be read as pairs and addresses, or as a JSON object.
Readable(f) ==
  IF f.json THEN \A l \in Range(f.lines) : l.name # NoName
  ELSE /\ \A l \in Range(f.lines) : l.name # NoName \/ IsReference(l)
       /\ Fits(References(f.lines), f.colors)

parseProductImageInput(f) ==
  IF f.json THEN GatherAll(f.lines) ELSE ParsedLines(f.lines, f.colors)

\* productPayloadSchema: what the service, too, asks of a product.
AllSupported(images) == Range(images) \subseteq Supported
EachHasPicture(colors, images) == Range(colors) \subseteq DOMAIN images
validPrice(price) == price \in 0..MaxPrice

buildProductPayload(f) ==
  [colors |-> f.colors, images |-> parseProductImageInput(f), price |-> f.price]
Valid(payload) ==
  /\ payload.colors # <<>>
  /\ AllSupported(payload.images)
  /\ EachHasPicture(payload.colors, payload.images)
  /\ validPrice(payload.price)

-----------------------------------------------------------------------------
(* The sheet *)

openCreateProduct ==
  /\ ~form.open
  /\ form' = emptyProductForm
  /\ added' = Range(form'.lines) /\ removed' = {}
  /\ UNCHANGED <<row, opened, edits>>

openEditProduct ==
  /\ ~form.open
  /\ opened' = toProductRecord(row)
  /\ form' = productToForm(opened')
  /\ added' = {} /\ removed' = {}
  /\ UNCHANGED <<row, edits>>

Edit == form.open /\ edits < MaxEdits /\ edits' = edits + 1

TypeColors(colors) ==
  /\ Edit
  /\ form' = [form EXCEPT !.colors = colors]
  /\ UNCHANGED <<row, opened, added, removed>>

TypePrice(price) ==
  /\ Edit
  /\ form' = [form EXCEPT !.price = price]
  /\ UNCHANGED <<row, opened, added, removed>>

AddLine(line) ==
  /\ Edit
  /\ form' = [form EXCEPT !.lines = Append(@, line)]
  /\ added' = added \union {line}
  /\ UNCHANGED <<row, opened, removed>>

RemoveLine(i) ==
  /\ Edit
  /\ form' = [form EXCEPT !.lines = RemoveAt(@, i)]
  /\ removed' = removed \union {form.lines[i].name}
  /\ UNCHANGED <<row, opened, added>>

\* The same pairs, written as a JSON object or as lines.
Rewrite ==
  /\ Edit
  /\ form' = [form EXCEPT !.json = ~@]
  /\ UNCHANGED <<row, opened, added, removed>>

\* A form that cannot be read stays as it is, with the reason on it.
handleProductSubmit ==
  /\ form.open
  /\ Readable(form)
  /\ Valid(buildProductPayload(form))
  /\ row' = buildProductPayload(form)
  /\ form' = ClosedForm
  /\ UNCHANGED <<opened, added, removed, edits>>

CloseSheet ==
  /\ form.open
  /\ form' = ClosedForm
  /\ UNCHANGED <<row, opened, added, removed, edits>>

\* Another client of the service sends some of the fields: only when both are sent
\* are the colors compared with the pictures.
updateProduct(changed) ==
  /\ edits < MaxEdits
  /\ edits' = edits + 1
  /\ \/ changed.colors # <<>> /\ row' = [row EXCEPT !.colors = changed.colors]
     \/ AllSupported(changed.images) /\ row' = [row EXCEPT !.images = changed.images]
     \/ Valid([changed EXCEPT !.price = 0])
        /\ row' = [row EXCEPT !.colors = changed.colors, !.images = changed.images]
  /\ UNCHANGED <<form, opened, added, removed>>

Changes == [colors : {cs \in Colors : Len(cs) = 1}, price : {0},
            images : UNION {[names -> {Odd}] : names \in SUBSET Plain}]

Next ==
  \/ openCreateProduct
  \/ openEditProduct
  \/ \E colors \in Colors : TypeColors(colors)
  \/ \E price \in Cents \union {Unreadable} : TypePrice(price)
  \/ \E line \in Line : AddLine(line)
  \/ \E i \in DOMAIN form.lines : RemoveLine(i)
  \/ Rewrite
  \/ handleProductSubmit
  \/ CloseSheet
  \/ \E changed \in Changes : updateProduct(changed)

Spec == Init /\ [][Next]_vars

-----------------------------------------------------------------------------
(* Properties *)

touched == removed \union {l.name : l \in added}

\* The variables have their types: a form that is closed keeps no text, a product
\* that was opened has no nulls.
TypeOK ==
  /\ row \in Stored
  /\ opened \in Record
  /\ form.open \/ form = ClosedForm
  /\ form \in [open : BOOLEAN, edits : BOOLEAN, colors : Seq(Color), json : BOOLEAN,
               lines : Seq(Line), price : Int]
  /\ added \subseteq Line
  /\ removed \subseteq Color \union {NoName}
  /\ edits \in 0..MaxEdits

\* Whatever colors were retyped, lines added for other colors and notation changed,
\* saving an edited product leaves a color whose own line was not edited the picture
\* it had when the sheet was opened, unless a line was read as an address alone.
PicturesStay ==
  (/\ handleProductSubmit /\ form.edits
   /\ form.json \/ References(form.lines) = <<>>)
  => \A k \in (DOMAIN opened.images) \ touched :
       k \in DOMAIN row'.images /\ row'.images[k] = opened.images[k]

\* No picture moves from one color to another: what is saved for a color it had
\* before, or it was written for that color or for none; but for the line of a color
\* that begins like a path, which is read as an address.
PicturesKeepTheirColor ==
  handleProductSubmit =>
    \A k \in DOMAIN row'.images :
      \/ form.edits /\ k \in DOMAIN opened.images /\ opened.images[k] = row'.images[k]
      \/ \E l \in added : l.name \in {k, NoName} /\ l.to = row'.images[k]
      \/ row'.images[k] = Odd
=============================================================================
