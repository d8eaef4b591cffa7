---------------------------- MODULE VectorLayout ----------------------------
(***************************************************************************)
(* How many bytes a vector takes in a file, and how many units a           *)
(* FlatVector needs: the sizes that FlatVector::build_, Vector::write_ and *)
(* the io_size() functions compute each for themselves.                    *)
(***************************************************************************)
EXTENDS Naturals, Sequences
LOCAL INSTANCE FiniteSetsExt

\* Mutant: a vector is not filled up.
NoPadding(total) == 0

\* The zeros write_() puts behind total bytes of data, and that read_() and
\* map_() step over.
Padding(total) == (8 - (total % 8)) % 8

\* Mutant: forgets the leading size.
ElementBytes(elem, count) == ((elem * count + 7) \div 8) * 8

\* Vector<T>::io_size(), with elem = sizeof(T).
VectorIoSize(elem, count) == 8 + ((elem * count + 7) \div 8) * 8

\* The bits of the largest value.
ValueSize(list) ==
  LET largest == Max({0} \cup {list[i] : i \in DOMAIN list})
  IN  Min({s \in 0 .. largest : largest < 2 ^ s})

\* Mutant: rounds down.
TooFewUnits(list, word, pad) ==
  LET least == (ValueSize(list) * Len(list)) \div word
  IN  least + (least % pad)

\* num_units of build_(): pad is 64 / MARISA_WORD_SIZE, so that the units of
\* a 32-bit build fill 64-bit words.
NumUnits(list, word, pad) ==
  LET least == (ValueSize(list) * Len(list) + word - 1) \div word
  IN  IF list = <<>> THEN 0
      ELSE IF ValueSize(list) = 0 THEN pad
      ELSE least + (least % pad)
=============================================================================
