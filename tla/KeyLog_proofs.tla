---------------------------- MODULE KeyLog_proofs ----------------------------
(***************************************************************************)
(* Proofs about the key file for any identities, command lines, addresses, *)
(* number of keys, of lines cut short, and any faults.  IInv is the        *)
(* inductive invariant: how far the current line has come, what the last   *)
(* columns of the file are then, and who holds the secrets in use.         *)
(* The last part is about the address column: what Expanded makes of the   *)
(* text of an address is the address.                                      *)
(***************************************************************************)
EXTENDS KeyLog, NumberLemmas, SequenceTheorems

Recipient == Identity \cup {Plaintext}

Piece ==
  {Tab, Newline, Fragment, HalfCharacter}
    \cup (UNION {{<<"total", k>>, Address(k), ZeroCount(k)} : k \in 1 .. MaxKeys})
    \cup {Field(k, to) : k \in 1 .. MaxKeys, to \in Recipient}

TypeOK ==
  /\ recipient_file \in Identity \cup {None}
  /\ keygen \in {"idle", "truncated", "written"}
  /\ generated \in Seq(Identity)
  /\ kept \subseteq Identity
  /\ sink \in Recipient \cup {None}
  /\ file \in Seq(Seq(Seq(Piece)))
  /\ found \in 0 .. MaxKeys
  /\ torn \in Nat
  /\ IsFiniteSet(completed) /\ \A c \in completed : c.key \in 1 .. found

----------------------------------------------------------------------------
(* The secrets                                                             *)

(* The secret of i is in somebody's hands, or its keygen is under way or   *)
(* died.                                                                   *)
Safe(i) == i \in kept \cup died \/ (keygen # "idle" /\ i = Last(generated))

KeygenIsAt ==
  /\ keygen # "idle" => generated # <<>>
  /\ keygen = "written" => recipient_file = Last(generated)

RecipientsSafe ==
  /\ Environment \cap Identity \subseteq kept
  /\ recipient_file \in Identity => Safe(recipient_file)
  /\ sink \in Identity => Safe(sink)

----------------------------------------------------------------------------
(* The current line                                                        *)

(* The pieces s are the current line but its first n.                      *)
IsRest(s, n) ==
  /\ s \in Seq(Piece) /\ Len(s) = 8 - n
  /\ \A i \in 1 .. 8 - n : s[i] = Line(found)[i + n]

(* How many pieces of the current line are written.                        *)
Written == IF line = <<>> THEN 0 ELSE 8 - Len(line)

LineIsAt ==
  line # <<>> => /\ sink # None /\ found # 0
                 /\ \E n \in 0 .. 7 : IsRest(line, n)

(* No line of the file is without a column.                                *)
Open == file # <<>> /\ \A i \in DOMAIN file : file[i] # <<>>

(* The columns of the current line are the last ones, whatever is before.  *)
Column(back) == Last(file)[Len(Last(file)) - back]

ColumnsAt ==
  /\ Len(Last(file)) >= 1 + Written \div 2
  /\ Written \in {2, 4, 6} => Column(0) = <<>>
  /\ Written = 3 => Column(0) = <<Address(found)>>
  /\ Written \in {4, 5} => Column(1) = <<Address(found)>>
  /\ Written \in {6, 7} => Column(2) = <<Address(found)>>
  /\ Written = 5 => Column(0) = <<ZeroCount(found)>>
  /\ Written \in {6, 7} => Column(1) = <<ZeroCount(found)>>
  /\ Written = 7 => Column(0) = <<Field(found, sink)>>

(* A column that is a field and nothing else follows its own address and   *)
(* count.                                                                  *)
FieldsFollow ==
  \A i \in DOMAIN file : \A c \in DOMAIN file[i] :
    \A k \in 1 .. MaxKeys, to \in Recipient :
      file[i][c] = <<Field(k, to)>> =>
        /\ c > 2
        /\ file[i][c - 1] = <<ZeroCount(k)>>
        /\ file[i][c - 2] = <<Address(k)>>

(* The current line is in columns of its own, from the first on.           *)
Clean == Len(Last(file)) = 1 + Written \div 2

(* The line of c is in the file, on its own and ended.                     *)
OnRecord(c) ==
  \E i \in DOMAIN file :
    /\ i # Len(file) /\ Len(file[i]) >= 4
    /\ file[i][4] = <<Field(c.key, c.sink)>>
    /\ file[i][2] = <<Address(c.key)>>

Lost == {c \in completed : c.sink \in Identity /\ ~OnRecord(c)}

TearsPay == Cardinality(Lost) + (IF Clean THEN 0 ELSE 1) <= torn

----------------------------------------------------------------------------
(* Plaintext                                                               *)

FieldsRevealed ==
  \A i \in DOMAIN file : \A c \in DOMAIN file[i] : \A p \in Range(file[i][c]) :
    p[1] = "field" => /\ p[2] \in 1 .. found
                      /\ p[3] = Plaintext => p[2] \in revealed

RunRevealed ==
  sink = Plaintext => /\ found + 1 .. MaxKeys \subseteq revealed
                      /\ line # <<>> => found \in revealed

IInv ==
  /\ TypeOK
  /\ KeygenIsAt
  /\ RecipientsSafe
  /\ SecretsKept
  /\ LineIsAt
  /\ Open
  /\ ColumnsAt
  /\ FieldsFollow
  /\ TearsPay
  /\ FieldsRevealed
  /\ RunRevealed

----------------------------------------------------------------------------
LEMMA Constants ==
  /\ None # Plaintext /\ None # Malformed /\ Plaintext # Malformed
  /\ {None, Plaintext, Malformed} \cap Identity = {}
  /\ MaxKeys \in Nat
  <1>1. /\ IsFiniteSet({None}) /\ Cardinality({None}) = 1
        /\ IsFiniteSet({Plaintext}) /\ Cardinality({Plaintext}) = 1
    BY FS_Singleton
  <1>2. /\ Cardinality({None} \cup {Malformed}) \in {1, 2}
        /\ Cardinality({Plaintext} \cup {None}) \in {1, 2}
        /\ Cardinality({Plaintext} \cup {Malformed}) \in {1, 2}
    BY <1>1, FS_AddElement
  <1>3. /\ None = Plaintext => {None, Plaintext, Malformed} = {None} \cup {Malformed}
        /\ None = Malformed => {None, Plaintext, Malformed} = {Plaintext} \cup {None}
        /\ Plaintext = Malformed => {None, Plaintext, Malformed} = {None} \cup {Malformed}
    OBVIOUS
  <1>4. AddressOf \in Seq(Addresses) /\ MaxKeys \in 0 .. Len(AddressOf)
    BY KeyLogAssumption
  <1>5. MaxKeys \in Nat
    BY <1>4
  <1>6. Cardinality({None, Plaintext, Malformed}) \notin {1, 2}
    BY KeyLogAssumption
  <1>7. {None, Plaintext, Malformed} \cap Identity = {}
    BY KeyLogAssumption
  <1> QED
    BY <1>2, <1>3, <1>5, <1>6, <1>7

LEMMA InitIInv == Init => IInv
  <1> SUFFICES ASSUME Init PROVE IInv
    OBVIOUS
  <1>1. /\ recipient_file = None /\ keygen = "idle" /\ generated = <<>>
        /\ kept = Environment \cap Identity /\ sink = None /\ line = <<>>
        /\ file = << << <<>> >> >> /\ found = 0 /\ torn = 0
        /\ completed = {} /\ revealed = {} /\ died = {}
    BY DEF Init
  <1>2. /\ None \notin Identity /\ None # Plaintext
        /\ MaxKeys \in Nat
    BY Constants
  <1>3. file \in Seq(Seq(Seq(Piece)))
    <2> DEFINE Columns == Seq(Seq(Piece))
    <2>1. << <<>> >> \in Columns
      OBVIOUS
    <2> HIDE DEF Columns
    <2>2. << << <<>> >> >> \in Seq(Columns)
      BY <2>1
    <2> QED
      BY <1>1, <2>2 DEF Columns
  <1>4. TypeOK
    BY <1>1, <1>2, <1>3, FS_EmptySet DEF TypeOK, Recipient
  <1>5. KeygenIsAt /\ RecipientsSafe /\ SecretsKept
    BY <1>1, <1>2 DEF KeygenIsAt, RecipientsSafe, SecretsKept
  <1>6. LineIsAt /\ RunRevealed /\ Written = 0
    BY <1>1, <1>2 DEF LineIsAt, RunRevealed, Written
  <1>7. /\ Len(file) = 1 /\ DOMAIN file = {1} /\ Last(file) = << <<>> >>
        /\ file[1] = << <<>> >> /\ Len(Last(file)) = 1
        /\ DOMAIN file[1] = {1} /\ file[1][1] = <<>>
    BY <1>1 DEF Last
  <1>8. Open /\ ColumnsAt /\ Clean
    BY <1>6, <1>7 DEF Open, ColumnsAt, Clean
  <1>9. FieldsFollow /\ FieldsRevealed
    BY <1>7 DEF FieldsFollow, FieldsRevealed, Range
  <1>10. TearsPay
    <2>1. Lost = {}
      BY <1>1 DEF Lost
    <2> QED
      BY <1>1, <1>8, <2>1, FS_EmptySet DEF TearsPay
  <1> QED
    BY <1>4, <1>5, <1>6, <1>8, <1>9, <1>10 DEF IInv

----------------------------------------------------------------------------
(* The command line: what the loop reads are arguments.                    *)

(* The loop puts together sequences over R, one after the other.           *)
LEMMA ReadArguments ==
  ASSUME NEW R, NEW args \in Seq(R)
  PROVE  Read(args) \in Seq(R)
  <1> DEFINE n == Len(args)
             S == Seq(R)
             looked == DOMAIN args \ Swallowed(args)
             Cat(a, b) == a \o b
             add(i) == IF i \in looked THEN <<args[i]>> ELSE <<>>
             Step(f, i) == IF i = 0 THEN <<>> ELSE Cat(f[i - 1], add(i))
             upTo == CHOOSE f : f = [i \in 0 .. n |-> Step(f, i)]
             Solves(f, m) == /\ f[0] = <<>>
                             /\ \A i \in 1 .. m : f[i] = Cat(f[i - 1], add(i))
             Solved(m) == \E f \in [0 .. m -> S] : Solves(f, m)
             Good == {m \in Nat : m <= n => Solved(m)}
  <1>1. Read(args) = upTo[n]
    BY DEF Read
  <1>2. /\ n \in Nat
        /\ <<>> \in S /\ \A a, b \in S : Cat(a, b) \in S
        /\ \A i \in 1 .. n : add(i) \in S
    OBVIOUS
  <1> HIDE DEF n, S, looked, Cat, add
  <1>3. 0 \in Good
    <2> DEFINE f == [i \in 0 .. 0 |-> <<>>]
    <2>1. f \in [0 .. 0 -> S] /\ Solves(f, 0)
      BY <1>2
    <2> QED
      BY <2>1
  <1>4. ASSUME NEW m \in Good PROVE m + 1 \in Good
    <2> HIDE DEF Solved
    <2> SUFFICES ASSUME m \in Nat, m + 1 <= n PROVE Solved(m + 1)
      OBVIOUS
    <2>1. m \in Nat /\ m <= n /\ Solved(m)
      BY <1>2, <1>4
    <2> USE DEF Solved
    <2>2. PICK f \in [0 .. m -> S] : Solves(f, m)
      BY <2>1
    <2> DEFINE last == Cat(f[m], add(m + 1))
               g == [i \in 0 .. m + 1 |-> IF i <= m THEN f[i] ELSE last]
    <2>3. last \in S
      BY <1>2, <2>1
    <2> HIDE DEF last
    <2>4. g \in [0 .. m + 1 -> S]
      BY <2>1, <2>3
    <2>5. g[0] = <<>>
      BY <2>1, <2>2
    <2>6. ASSUME NEW i \in 1 .. m + 1 PROVE g[i] = Cat(g[i - 1], add(i))
      <3>1. CASE i <= m
        <4>1. /\ i \in 1 .. m /\ i - 1 \in 0 .. m /\ i \in 0 .. m
              /\ g[i] = f[i] /\ g[i - 1] = f[i - 1]
          BY <2>1, <3>1
        <4> QED
          BY <2>2, <4>1
      <3>2. CASE i = m + 1
        <4>1. i - 1 = m /\ g[i] = last /\ g[i - 1] = f[m]
          BY <2>1, <3>2
        <4> QED
          BY <3>2, <4>1 DEF last
      <3> QED
        BY <2>1, <3>1, <3>2
    <2>7. Solves(g, m + 1)
      BY <2>5, <2>6
    <2> QED
      BY <2>4, <2>7
  <1>5. Solved(n)
    <2> HIDE DEF Solved
    <2>1. Good \subseteq Nat
      OBVIOUS
    <2> HIDE DEF Good
    <2>2. Good = Nat
      BY <1>3, <1>4, <2>1, GoodNaturals
    <2>3. n \in Good
      BY <1>2, <2>2
    <2> QED
      BY <2>3 DEF Good
  <1>6. PICK f \in [0 .. n -> S] : Solves(f, n)
    BY <1>5
  <1>7. f = [i \in 0 .. n |-> Step(f, i)]
    <2>1. \A i \in 0 .. n : f[i] = Step(f, i)
      BY <1>2, <1>6
    <2> QED
      BY <2>1
  <1>8. upTo = [i \in 0 .. n |-> Step(upTo, i)]
    <2> HIDE DEF Step
    <2> QED
      BY <1>7
  <1> HIDE DEF upTo
  <1>9. /\ upTo[0] = <<>>
        /\ \A i \in 1 .. n : upTo[i] = Cat(upTo[i - 1], add(i))
    BY <1>2, <1>8
  <1> DEFINE Same == {m \in Nat : m <= n => upTo[m] = f[m]}
  <1>10. 0 \in Same
    BY <1>6, <1>9
  <1>11. ASSUME NEW m \in Same PROVE m + 1 \in Same
    <2> SUFFICES ASSUME m + 1 <= n PROVE upTo[m + 1] = f[m + 1]
      OBVIOUS
    <2>1. m + 1 \in 1 .. n /\ (m + 1) - 1 = m /\ upTo[m] = f[m]
      BY <1>2, <1>11
    <2> QED
      BY <1>6, <1>9, <2>1
  <1>12. Same = Nat
    <2>1. Same \subseteq Nat
      OBVIOUS
    <2> HIDE DEF Same
    <2> QED
      BY <1>10, <1>11, <2>1, GoodNaturals
  <1>13. upTo[n] = f[n]
    <2>1. n \in Same
      BY <1>2, <1>12
    <2> QED
      BY <1>2, <2>1
  <1> QED
    BY <1>1, <1>2, <1>6, <1>13 DEF S

(* A run that mines for keys and shows them had --reveal among its         *)
(* arguments.                                                              *)
LEMMA StartsTyped ==
  ASSUME NEW start \in Starts
  PROVE  start.reveal \in BOOLEAN /\ (start.reveal => start.typed)
  <1>1. PICK args \in Arguments :
          \E run \in {gpu_main(args), cpu_main(args)} :
            /\ run.mode = "keys"
            /\ start = [reveal |-> run.reveal, typed |-> "--reveal" \in Range(args)]
    BY DEF Starts
  <1>2. ASSUME NEW mode, NEW positional, NEW reveal \in BOOLEAN,
               Mining(mode, positional, reveal).mode = "keys"
        PROVE  Mining(mode, positional, reveal).reveal = reveal
    BY <1>2 DEF Mining, Usage
  <1>3. args \in Seq(Range(args))
    BY KeyLogAssumption
  <1>4. Range(Read(args)) \subseteq Range(args)
    <2>1. Read(args) \in Seq(Range(args))
      BY <1>3, ReadArguments
    <2> DEFINE r == Read(args)
               R == Range(args)
    <2>2. r \in Seq(R)
      BY <2>1
    <2> HIDE DEF r, R
    <2>3. \A i \in DOMAIN r : r[i] \in R
      BY <2>2
    <2> QED
      BY <2>3 DEF r, R, Range
  <1> DEFINE read == "--reveal" \in Range(Read(args))
             typed == "--reveal" \in Range(args)
  <1>5. read \in BOOLEAN /\ typed \in BOOLEAN /\ (read => typed)
    BY <1>4
  <1>6. gpu_main(args).mode = "keys" => gpu_main(args).reveal = read
    <2> DEFINE positional == SelectSeq(Read(args), LAMBDA a : a \notin Flag)
    <2>1. \/ gpu_main(args) = Usage
          \/ gpu_main(args) = Mining(Mode(args), positional, read)
      BY DEF gpu_main
    <2> HIDE DEF positional, read
    <2> QED
      BY <1>2, <1>5, <2>1 DEF Usage
  <1>7. cpu_main(args).mode = "keys" => cpu_main(args).reveal = typed
    <2> DEFINE positional == SelectSeq(args, LAMBDA a : a \notin Flag)
    <2>1. cpu_main(args) = Mining("keys", positional, typed)
      BY DEF cpu_main
    <2> HIDE DEF positional, typed
    <2> QED
      BY <1>2, <1>5, <2>1
  <1>8. PICK run \in {gpu_main(args), cpu_main(args)} :
          run.mode = "keys" /\ start = [reveal |-> run.reveal, typed |-> typed]
    BY <1>1
  <1> HIDE DEF read, typed
  <1>9. run.reveal \in {read, typed}
    BY <1>6, <1>7, <1>8
  <1> QED
    BY <1>5, <1>8, <1>9

----------------------------------------------------------------------------
(* The secrets                                                             *)

(* keygen touches nothing but its own state, and prints or dies before the *)
(* next one begins.                                                        *)
LEMMA KeygenIInv ==
  ASSUME IInv, Keygen
  PROVE  IInv'
  <1> USE DEF IInv
  <1>1. UNCHANGED <<sink, line, file, found, torn, completed, revealed>>
    BY DEF Keygen
  <1>2. /\ LineIsAt' /\ Open' /\ ColumnsAt' /\ FieldsFollow' /\ TearsPay'
        /\ FieldsRevealed' /\ RunRevealed'
    <2>1. LineIsAt' /\ Written' = Written /\ \A n : Column(n)' = Column(n)
      BY <1>1 DEF LineIsAt, IsRest, Line, Field, Written, Column
    <2>2. Open' /\ ColumnsAt'
      BY <1>1, <2>1 DEF Open, ColumnsAt, Field
    <2>3. FieldsFollow' /\ FieldsRevealed' /\ RunRevealed'
      BY <1>1 DEF FieldsFollow, FieldsRevealed, RunRevealed
    <2>4. TearsPay'
      BY <1>1, <2>1 DEF TearsPay, Lost, OnRecord, Clean
    <2> QED
      BY <2>1, <2>2, <2>3, <2>4
  <1>3. /\ generated \in Seq(Identity) /\ kept \subseteq Identity
        /\ recipient_file \in Identity \cup {None}
        /\ None \notin Identity
    BY Constants DEF TypeOK
  <1>4. CASE KeygenTruncates
    <2>1. /\ keygen = "idle" /\ keygen' = "truncated" /\ recipient_file' = None
          /\ UNCHANGED <<kept, died>>
      BY <1>4 DEF KeygenTruncates
    <2>2. PICK i \in Identity : generated' = Append(generated, i)
      BY <1>4 DEF KeygenTruncates
    <2>3. generated' \in Seq(Identity) /\ generated' # <<>>
      BY <1>3, <2>2
    <2>4. TypeOK'
      BY <1>1, <1>3, <2>1, <2>3 DEF TypeOK
    <2>5. KeygenIsAt' /\ RecipientsSafe' /\ SecretsKept'
      BY <1>1, <1>3, <2>1, <2>3
      DEF KeygenIsAt, RecipientsSafe, SecretsKept, Safe
    <2> QED
      BY <1>2, <2>4, <2>5
  <1>5. CASE KeygenWrites
    <2>1. /\ keygen = "truncated" /\ keygen' = "written"
          /\ recipient_file' = Last(generated)
          /\ UNCHANGED <<generated, kept, died>>
      BY <1>5 DEF KeygenWrites
    <2>2. Last(generated) \in Identity
      BY <1>3, <2>1 DEF KeygenIsAt, Last
    <2>3. TypeOK'
      BY <1>1, <1>3, <2>1, <2>2 DEF TypeOK
    <2>4. KeygenIsAt' /\ RecipientsSafe' /\ SecretsKept'
      BY <1>1, <1>3, <2>1, <2>2
      DEF KeygenIsAt, RecipientsSafe, SecretsKept, Safe
    <2> QED
      BY <1>2, <2>3, <2>4
  <1>6. CASE KeygenPrints \/ KeygenDies
    <2>1. /\ keygen # "idle" /\ keygen' = "idle"
          /\ UNCHANGED <<generated, recipient_file>>
          /\ \/ kept' = kept \cup {Last(generated)} /\ UNCHANGED died
             \/ died' = died \cup {Last(generated)} /\ UNCHANGED kept
      BY <1>6 DEF KeygenPrints, KeygenDies, PrintsSecret
    <2>2. Last(generated) \in Identity
      BY <1>3, <2>1 DEF KeygenIsAt, Last
    <2>3. TypeOK'
      BY <1>1, <1>3, <2>1, <2>2 DEF TypeOK
    <2>4. KeygenIsAt' /\ RecipientsSafe' /\ SecretsKept'
      BY <1>1, <1>3, <2>1, <2>2
      DEF KeygenIsAt, RecipientsSafe, SecretsKept, Safe
    <2> QED
      BY <1>2, <2>3, <2>4
  <1> QED
    BY <1>4, <1>5, <1>6 DEF Keygen

(* The sink of a run is a recipient whose secret is safe, or its arguments *)
(* had --reveal: without it no environment and no file leads to plaintext. *)
LEMMA StartIInv ==
  ASSUME IInv, Start
  PROVE  IInv'
  <1> USE DEF IInv
  <1>1. PICK start \in Starts, env \in Environment :
          /\ sink' = resolve_sink(start.reveal, env)
          /\ revealed' = IF start.typed /\ sink' = Plaintext
                           THEN revealed \cup (found + 1 .. MaxKeys)
                           ELSE revealed \ (found + 1 .. MaxKeys)
    BY DEF Start
  <1>2. /\ sink = None
        /\ UNCHANGED <<recipient_file, keygen, generated, kept, line, file, found,
                       torn, completed, died>>
    BY DEF Start, keys
  <1>3. /\ line = <<>>
        /\ env \in Identity \cup {None, Malformed}
        /\ recipient_file \in Identity \cup {None}
        /\ found \in Nat /\ MaxKeys \in Nat
    BY <1>2, Constants, KeyLogAssumption DEF LineIsAt, TypeOK
  <1>4. /\ sink' \in Recipient \cup {None}
        /\ sink' \in Identity => \/ env \in Identity /\ sink' = env
                                 \/ recipient_file \in Identity /\ sink' = recipient_file
        /\ sink' = Plaintext => start.reveal
    BY <1>1, <1>3, Constants DEF resolve_sink, Recipient
  <1>5. TypeOK'
    BY <1>2, <1>4 DEF TypeOK
  <1>6. KeygenIsAt' /\ RecipientsSafe' /\ SecretsKept'
    BY <1>1, <1>2, <1>4 DEF KeygenIsAt, RecipientsSafe, SecretsKept, Safe
  <1>7. LineIsAt' /\ Open' /\ ColumnsAt' /\ FieldsFollow' /\ TearsPay'
    BY <1>2, <1>3 DEF LineIsAt, Open, ColumnsAt, Column, Written, FieldsFollow,
                      TearsPay, Lost, OnRecord, Clean
  <1>8. sink' = Plaintext => revealed' = revealed \cup (found + 1 .. MaxKeys)
    BY <1>1, <1>4, StartsTyped
  <1>9. RunRevealed'
    BY <1>2, <1>3, <1>8 DEF RunRevealed
  <1>10. FieldsRevealed'
    <2>1. \A k \in 1 .. found : k \in revealed => k \in revealed'
      BY <1>1, <1>3
    <2> QED
      BY <1>2, <2>1 DEF FieldsRevealed
  <1> QED
    BY <1>5, <1>6, <1>7, <1>9, <1>10

----------------------------------------------------------------------------
(* The file with one more piece                                            *)

LEMMA PieceKinds ==
  /\ Tab \in Piece /\ Newline \in Piece /\ Fragment \in Piece
  /\ HalfCharacter \in Piece
  /\ Tab # Newline /\ {Fragment, HalfCharacter} \cap {Tab, Newline} = {}
  /\ Fragment[1] # "field" /\ HalfCharacter[1] # "field"
  /\ Fragment # HalfCharacter
  /\ \A k \in 1 .. MaxKeys :
       /\ {<<"total", k>>, Address(k), ZeroCount(k)} \subseteq Piece
       /\ {<<"total", k>>, Address(k), ZeroCount(k)}
            \cap {Tab, Newline, HalfCharacter} = {}
       /\ \A p \in {<<"total", k>>, Address(k), ZeroCount(k)} : p[1] # "field"
       /\ \A to \in Recipient : /\ Field(k, to) \in Piece
                                /\ Field(k, to) \notin {Tab, Newline, HalfCharacter}
  <1>1. \A k, to : /\ Address(k)[1] = "address" /\ ZeroCount(k)[1] = "zeros"
                   /\ <<"total", k>>[1] = "total" /\ Field(k, to)[1] = "field"
    BY DEF Address, ZeroCount, Field
  <1>2. /\ Tab[1] = "tab" /\ Newline[1] = "newline" /\ Fragment[1] = "fragment"
        /\ HalfCharacter[1] = "half a character"
    BY DEF Tab, Newline, Fragment, HalfCharacter
  <1>3. /\ Tab \in Piece /\ Newline \in Piece /\ Fragment \in Piece
        /\ HalfCharacter \in Piece
        /\ \A k \in 1 .. MaxKeys :
             /\ {<<"total", k>>, Address(k), ZeroCount(k)} \subseteq Piece
             /\ \A to \in Recipient : Field(k, to) \in Piece
    <2>1. {Tab, Newline, Fragment, HalfCharacter} \subseteq Piece
      BY DEF Piece
    <2>2. ASSUME NEW k \in 1 .. MaxKeys, NEW p \in {<<"total", k>>, Address(k), ZeroCount(k)}
          PROVE  p \in Piece
      BY <2>2 DEF Piece
    <2>3. ASSUME NEW k \in 1 .. MaxKeys, NEW to \in Recipient
          PROVE  Field(k, to) \in Piece
      BY <2>3 DEF Piece
    <2> QED
      BY <2>1, <2>2, <2>3
  <1> HIDE DEF Piece
  <1> QED
    BY <1>1, <1>2, <1>3

LEMMA FieldParts ==
  \A k, to : /\ Field(k, to)[1] = "field" /\ Field(k, to)[2] = k
             /\ Field(k, to)[3] = to
  BY DEF Field

LEMMA Replaced ==
  ASSUME NEW T, NEW s \in Seq(T), NEW n \in DOMAIN s, NEW v \in T
  PROVE  /\ [s EXCEPT ![n] = v] \in Seq(T)
         /\ Len([s EXCEPT ![n] = v]) = Len(s)
         /\ [s EXCEPT ![n] = v][n] = v
         /\ \A i \in DOMAIN s : i # n => [s EXCEPT ![n] = v][i] = s[i]
  <1> DEFINE r == [s EXCEPT ![n] = v]
  <1>1. /\ Len(s) \in Nat /\ DOMAIN s = 1 .. Len(s)
        /\ \A i \in DOMAIN s : s[i] \in T
    OBVIOUS
  <1>2. /\ DOMAIN r = 1 .. Len(s) /\ r[n] = v
        /\ \A i \in DOMAIN s : i # n => r[i] = s[i]
    BY <1>1
  <1>3. \A i \in 1 .. Len(s) : r[i] \in T
    BY <1>1, <1>2
  <1>4. r = [i \in 1 .. Len(s) |-> r[i]]
    BY <1>2
  <1> HIDE DEF r
  <1>5. r \in Seq(T) /\ Len(r) = Len(s)
    BY <1>1, <1>3, <1>4
  <1> QED
    BY <1>2, <1>5 DEF r

LEMMA Domain ==
  ASSUME NEW T, NEW s \in Seq(T)
  PROVE  Len(s) \in Nat /\ DOMAIN s = 1 .. Len(s)
  OBVIOUS

LEMMA OwnRange ==
  ASSUME NEW n \in Nat \ {0}
  PROVE  n \in 1 .. n /\ n \in 1 .. n + 1 /\ n # n + 1
  OBVIOUS

(* The column that grows, in the last line.                                *)
LEMMA PutText ==
  ASSUME TypeOK, Open, NEW p \in Piece, p \notin {Tab, Newline}, NEW new,
         new = Put(p)
  PROVE  /\ new \in Seq(Seq(Seq(Piece)))
         /\ Len(new) = Len(file)
         /\ \A i \in DOMAIN file : i # Len(file) => new[i] = file[i]
         /\ Len(Last(new)) = Len(Last(file))
         /\ \A c \in DOMAIN Last(file) :
              c # Len(Last(file)) => Last(new)[c] = Last(file)[c]
         /\ Last(new)[Len(Last(file))]
              = Append(Last(file)[Len(Last(file))], p)
  <1> DEFINE Text == Seq(Piece)
             Columns == Seq(Text)
             n == Len(file)
             last == file[n]
             m == Len(last)
             text == Append(last[m], p)
             grown == [last EXCEPT ![m] = text]
  <1>1. file \in Seq(Columns)
    BY DEF TypeOK
  <1>2. n \in Nat \ {0} /\ DOMAIN file = 1 .. n /\ n \in DOMAIN file
        /\ last \in Columns
    <2> HIDE DEF Columns
    <2> QED
      BY <1>1 DEF Open
  <1>3. m \in Nat \ {0} /\ DOMAIN last = 1 .. m /\ last[m] \in Text
    <2>1. last # <<>>
      BY <1>2 DEF Open
    <2> HIDE DEF Text, last
    <2> QED
      BY <1>2, <2>1
  <1>4. text \in Text
    BY <1>3
  <1>5. /\ grown \in Columns /\ Len(grown) = m /\ grown[m] = text
        /\ \A c \in 1 .. m : c # m => grown[c] = last[c]
    <2> HIDE DEF Text, last, text, m
    <2> QED
      BY <1>2, <1>3, <1>4, Replaced
  <1>6. new = [file EXCEPT ![n] = grown]
    BY DEF Put, Last
  <1> HIDE DEF grown, Columns, n
  <1>7. /\ new \in Seq(Columns) /\ Len(new) = n /\ new[n] = grown
        /\ \A i \in 1 .. n : i # n => new[i] = file[i]
    <2> HIDE DEF m, last
    <2>1. /\ [file EXCEPT ![n] = grown] \in Seq(Columns)
          /\ Len([file EXCEPT ![n] = grown]) = n
      BY <1>1, <1>2, <1>5, Replaced DEF n
    <2>2. DOMAIN file = 1 .. n
      BY <1>2
    <2> QED
      BY <1>1, <1>2, <1>5, <1>6, <2>1, <2>2
  <1> QED
    BY <1>2, <1>3, <1>5, <1>7, Zenon DEF Last, Columns, n

(* A new column at the end of the last line.                               *)
LEMMA PutTab ==
  ASSUME TypeOK, Open, NEW new, new = Put(Tab)
  PROVE  /\ new \in Seq(Seq(Seq(Piece)))
         /\ Len(new) = Len(file)
         /\ \A i \in DOMAIN file : i # Len(file) => new[i] = file[i]
         /\ Len(Last(new)) = Len(Last(file)) + 1
         /\ \A c \in DOMAIN Last(file) : Last(new)[c] = Last(file)[c]
         /\ Last(new)[Len(Last(file)) + 1] = <<>>
  <1> DEFINE Text == Seq(Piece)
             Columns == Seq(Text)
             n == Len(file)
             last == file[n]
             m == Len(last)
             grown == Append(last, <<>>)
  <1>1. file \in Seq(Columns)
    BY DEF TypeOK
  <1>2. n \in Nat \ {0} /\ DOMAIN file = 1 .. n /\ n \in DOMAIN file
        /\ last \in Columns
    <2> HIDE DEF Columns
    <2> QED
      BY <1>1 DEF Open
  <1>3. <<>> \in Text
    OBVIOUS
  <1>4. /\ grown \in Columns /\ Len(grown) = m + 1 /\ grown[m + 1] = <<>>
        /\ m \in Nat /\ DOMAIN last = 1 .. m
        /\ \A c \in 1 .. m : grown[c] = last[c]
    <2> HIDE DEF Text, last
    <2> QED
      BY <1>2, <1>3
  <1>5. new = [file EXCEPT ![n] = grown]
    BY PieceKinds DEF Put, Last
  <1> HIDE DEF grown, Columns, n
  <1>6. /\ new \in Seq(Columns) /\ Len(new) = n /\ new[n] = grown
        /\ \A i \in 1 .. n : i # n => new[i] = file[i]
    BY <1>1, <1>2, <1>4, <1>5, Replaced
  <1> QED
    BY <1>2, <1>4, <1>6, Zenon DEF Last, Columns, n

(* A new line.                                                             *)
LEMMA PutNewline ==
  ASSUME TypeOK, Open, NEW new, new = Put(Newline)
  PROVE  /\ new \in Seq(Seq(Seq(Piece)))
         /\ Len(new) = Len(file) + 1
         /\ \A i \in DOMAIN file : new[i] = file[i]
         /\ Last(new) = << <<>> >>
  <1> DEFINE Text == Seq(Piece)
             Columns == Seq(Text)
             fresh == << <<>> >>
  <1>1. file \in Seq(Columns)
    BY DEF TypeOK
  <1>2. fresh \in Columns
    <2>1. <<>> \in Text
      OBVIOUS
    <2> HIDE DEF Text
    <2> QED
      BY <2>1
  <1>3. new = Append(file, fresh)
    BY PieceKinds DEF Put
  <1> HIDE DEF Columns, fresh
  <1>4. /\ new \in Seq(Columns) /\ Len(new) = Len(file) + 1
        /\ \A i \in DOMAIN file : new[i] = file[i]
        /\ new[Len(new)] = fresh
    BY <1>1, <1>2, <1>3
  <1> QED
    BY <1>4 DEF Last, Columns, fresh

LEMMA AppendOne ==
  ASSUME NEW T, NEW s \in Seq(T), NEW p, NEW q, Append(s, p) = <<q>>
  PROVE  s = <<>> /\ p = q
  <1>1. Len(Append(s, p)) = 1 /\ Append(s, p)[1] = q
    OBVIOUS
  <1>2. Len(s) = 0
    BY <1>1
  <1> QED
    BY <1>1, <1>2

(* What the last line is made of.                                          *)
LEMMA LastLine ==
  ASSUME TypeOK, Open
  PROVE  /\ Len(file) \in Nat \ {0} /\ DOMAIN file = 1 .. Len(file)
         /\ Len(file) \in DOMAIN file /\ Last(file) = file[Len(file)]
         /\ \A i \in DOMAIN file :
              /\ file[i] \in Seq(Seq(Piece)) /\ Len(file[i]) \in Nat \ {0}
              /\ DOMAIN file[i] = 1 .. Len(file[i])
              /\ \A c \in DOMAIN file[i] : file[i][c] \in Seq(Piece)
  <1> DEFINE Text == Seq(Piece)
             Columns == Seq(Text)
  <1>1. file \in Seq(Columns)
    BY DEF TypeOK
  <1>2. \A i \in DOMAIN file : file[i] \in Columns /\ file[i] # <<>>
    <2> HIDE DEF Columns
    <2> QED
      BY <1>1 DEF Open
  <1>3. /\ Len(file) \in Nat \ {0} /\ DOMAIN file = 1 .. Len(file)
        /\ Len(file) \in DOMAIN file /\ Last(file) = file[Len(file)]
    <2> HIDE DEF Columns
    <2> QED
      BY <1>1 DEF Open, Last
  <1>4. ASSUME NEW i \in DOMAIN file
        PROVE  /\ Len(file[i]) \in Nat \ {0}
               /\ DOMAIN file[i] = 1 .. Len(file[i])
               /\ \A c \in DOMAIN file[i] : file[i][c] \in Text
    <2> DEFINE l == file[i]
    <2>1. l \in Columns /\ l # <<>>
      BY <1>2
    <2> HIDE DEF l, Text
    <2>2. /\ Len(l) \in Nat \ {0} /\ DOMAIN l = 1 .. Len(l)
          /\ \A c \in DOMAIN l : l[c] \in Text
      BY <2>1
    <2> QED
      BY <2>2 DEF l
  <1> QED
    BY <1>2, <1>3, <1>4

(* More text in the last column: a field that begins there follows its     *)
(* address and count, and one in plaintext was asked for.                  *)
LEMMA TextFile ==
  ASSUME TypeOK, Open, FieldsFollow, FieldsRevealed,
         NEW p \in Piece, p \notin {Tab, Newline}, file' = Put(p),
         UNCHANGED <<found, revealed, completed>>,
         \A k \in 1 .. MaxKeys, to \in Recipient :
           p = Field(k, to) /\ Column(0) = <<>> =>
             /\ Len(Last(file)) > 2
             /\ Column(1) = <<ZeroCount(k)>> /\ Column(2) = <<Address(k)>>,
         p[1] = "field" => /\ p[2] \in 1 .. found
                           /\ p[3] = Plaintext => p[2] \in revealed
  PROVE  /\ file' \in Seq(Seq(Seq(Piece)))
         /\ Open' /\ FieldsFollow' /\ FieldsRevealed'
         /\ Lost' = Lost
         /\ Len(Last(file)') = Len(Last(file))
         /\ \A back \in 1 .. Len(Last(file)) - 1 : Column(back)' = Column(back)
         /\ Column(0)' = Append(Column(0), p)
  <1> DEFINE n == Len(file)
             m == Len(file[n])
  <1>t. file[n][m] \in Seq(Piece)
    BY LastLine
  <1>1. /\ n \in Nat \ {0} /\ DOMAIN file = 1 .. n /\ n \in DOMAIN file
        /\ Last(file) = file[n]
        /\ m \in Nat \ {0} /\ DOMAIN file[n] = 1 .. m
    BY LastLine
  <1>0. /\ file' \in Seq(Seq(Seq(Piece)))
        /\ Len(file') = Len(file)
        /\ \A i \in DOMAIN file : i # Len(file) => file'[i] = file[i]
        /\ Len(Last(file')) = Len(Last(file))
        /\ \A c \in DOMAIN Last(file) :
             c # Len(Last(file)) => Last(file')[c] = Last(file)[c]
        /\ Last(file')[Len(Last(file))]
             = Append(Last(file)[Len(Last(file))], p)
    BY PutText
  <1>3. /\ DOMAIN file' = 1 .. n /\ Last(file') = file'[n]
        /\ DOMAIN file'[n] = 1 .. m
        /\ Len(file') = n /\ Len(file'[n]) = m
    <2> DEFINE Columns == Seq(Seq(Piece))
    <2>1. file' \in Seq(Columns) /\ Len(file') = n
      BY <1>0
    <2> HIDE DEF Columns, n
    <2>2. DOMAIN file' = 1 .. n /\ Last(file') = file'[n] /\ file'[n] \in Columns
      BY <1>1, <2>1 DEF Last
    <2>3. Len(file'[n]) = m
      BY <1>0, <1>1, <2>2
    <2> HIDE DEF m
    <2>4. DOMAIN file'[n] = 1 .. Len(file'[n])
      BY <2>2, Domain, Zenon DEF Columns
    <2> QED
      BY <2>1, <2>2, <2>3, <2>4
  <1>2. /\ \A i \in 1 .. n : i # n => file'[i] = file[i]
        /\ \A c \in 1 .. m : c # m => file'[n][c] = file[n][c]
        /\ file'[n][m] = Append(file[n][m], p)
    BY <1>0, <1>1, <1>3, Zenon
  <1> HIDE DEF n, m
  <1>4. Open'
    BY <1>1, <1>2, <1>3 DEF Open
  <1>5. FieldsFollow'
    <2> SUFFICES ASSUME NEW i \in 1 .. n, NEW c \in DOMAIN file'[i],
                        NEW k \in 1 .. MaxKeys, NEW to \in Recipient,
                        file'[i][c] = <<Field(k, to)>>
                 PROVE  /\ c > 2
                        /\ file'[i][c - 1] = <<ZeroCount(k)>>
                        /\ file'[i][c - 2] = <<Address(k)>>
      BY <1>3 DEF FieldsFollow, Field, ZeroCount, Address
    <2>1. CASE i # n
      BY <1>1, <1>2, <2>1 DEF FieldsFollow
    <2>2. CASE i = n /\ c # m
      <3>1. c \in 1 .. m /\ c < m /\ file[n][c] = <<Field(k, to)>>
        BY <1>1, <1>2, <1>3, <2>2
      <3>2. /\ c > 2 /\ file[n][c - 1] = <<ZeroCount(k)>>
            /\ file[n][c - 2] = <<Address(k)>>
        <4>1. n \in DOMAIN file /\ c \in DOMAIN file[n]
          BY <1>1, <3>1
        <4> QED
          BY <4>1, <3>1, ZenonT(30) DEF FieldsFollow
      <3>3. c - 1 \in 1 .. m /\ c - 2 \in 1 .. m /\ c - 1 # m /\ c - 2 # m
        BY <1>1, <3>1, <3>2
      <3> QED
        BY <1>2, <1>3, <2>2, <3>2, <3>3
    <2>3. CASE i = n /\ c = m
      <3>1. file[n][m] = <<>> /\ p = Field(k, to)
        BY <1>t, <1>2, <2>3, AppendOne
      <3>2. /\ m > 2 /\ file[n][m - 1] = <<ZeroCount(k)>>
            /\ file[n][m - 2] = <<Address(k)>>
        BY <1>1, <3>1 DEF m, n, Column
      <3>3. m - 1 \in 1 .. m /\ m - 2 \in 1 .. m /\ m - 1 # m /\ m - 2 # m
        BY <1>1, <3>2
      <3> QED
        BY <1>2, <1>3, <2>3, <3>2, <3>3, Zenon
    <2> QED
      BY <2>1, <2>2, <2>3
  <1>6. FieldsRevealed'
    <2> SUFFICES ASSUME NEW i \in 1 .. n, NEW c \in DOMAIN file'[i],
                        NEW q \in Range(file'[i][c]), q[1] = "field"
                 PROVE  q[2] \in 1 .. found /\ (q[3] = Plaintext => q[2] \in revealed)
      BY <1>3 DEF FieldsRevealed
    <2>1. CASE i # n
      BY <1>1, <1>2, <2>1 DEF FieldsRevealed
    <2>2. CASE i = n /\ c # m
      <3>1. n \in DOMAIN file /\ c \in DOMAIN file[n]
        BY <1>1, <1>3, <2>2
      <3>2. q \in Range(file[n][c])
        BY <1>2, <1>3, <2>2
      <3> QED
        BY <3>1, <3>2, Zenon DEF FieldsRevealed
    <2>3. CASE i = n /\ c = m
      <3>1. q \in Range(file[n][m]) \/ q = p
        <4> DEFINE t == file[n][m]
        <4>1. t \in Seq(Piece) /\ q \in Range(Append(t, p))
          BY <1>t, <1>2, <2>3
        <4> HIDE DEF t
        <4>2. q \in Range(t) \/ q = p
          BY <4>1 DEF Range
        <4> QED
          BY <4>2 DEF t
      <3> QED
        BY <1>1, <3>1 DEF FieldsRevealed
    <2> QED
      BY <2>1, <2>2, <2>3
  <1>7. Lost' = Lost
    <2>1. \A c : OnRecord(c)' <=> OnRecord(c)
      <3>1. Len(file) = n /\ Len(file') = n
        BY <1>3 DEF n
      <3> QED
        BY <1>1, <1>2, <1>3, <3>1 DEF OnRecord
    <2> QED
      BY <2>1 DEF Lost
  <1>8. /\ Len(Last(file)') = Len(Last(file))
        /\ \A back \in 1 .. Len(Last(file)) - 1 : Column(back)' = Column(back)
        /\ Column(0)' = Append(Column(0), p)
    <2>1. Len(Last(file)) = m /\ Len(Last(file')) = m
      BY <1>1, <1>3 DEF m
    <2>2. ASSUME NEW back \in 1 .. m - 1 PROVE Column(back)' = Column(back)
      <3>1. m - back \in 1 .. m /\ m - back # m
        BY <1>1
      <3> QED
        BY <1>1, <1>2, <1>3, <2>1, <3>1 DEF Column
    <2>3. Column(0)' = Append(Column(0), p)
      <3>1. m - 0 = m
        BY <1>1
      <3> QED
        BY <1>1, <1>2, <1>3, <2>1, <3>1 DEF Column
    <2> QED
      BY <2>1, <2>2, <2>3
  <1> QED
    BY <1>0, <1>4, <1>5, <1>6, <1>7, <1>8

(* A new column: the others keep their places.                             *)
LEMMA TabFile ==
  ASSUME TypeOK, Open, FieldsFollow, FieldsRevealed, file' = Put(Tab),
         UNCHANGED <<found, revealed, completed>>
  PROVE  /\ file' \in Seq(Seq(Seq(Piece)))
         /\ Open' /\ FieldsFollow' /\ FieldsRevealed'
         /\ Lost' = Lost
         /\ Len(Last(file)') = Len(Last(file)) + 1
         /\ \A back \in 0 .. Len(Last(file)) - 1 : Column(back + 1)' = Column(back)
         /\ Column(0)' = <<>>
  <1> DEFINE n == Len(file)
             m == Len(file[n])
  <1>1. /\ n \in Nat \ {0} /\ DOMAIN file = 1 .. n /\ n \in DOMAIN file
        /\ Last(file) = file[n]
        /\ m \in Nat \ {0} /\ DOMAIN file[n] = 1 .. m
    BY LastLine
  <1>0. /\ file' \in Seq(Seq(Seq(Piece)))
        /\ Len(file') = Len(file)
        /\ \A i \in DOMAIN file : i # Len(file) => file'[i] = file[i]
        /\ Len(Last(file')) = Len(Last(file)) + 1
        /\ \A c \in DOMAIN Last(file) : Last(file')[c] = Last(file)[c]
        /\ Last(file')[Len(Last(file)) + 1] = <<>>
    BY PutTab
  <1>3. /\ DOMAIN file' = 1 .. n /\ Last(file') = file'[n]
        /\ DOMAIN file'[n] = 1 .. m + 1
        /\ Len(file') = n /\ Len(file'[n]) = m + 1
    <2> DEFINE Columns == Seq(Seq(Piece))
    <2>1. file' \in Seq(Columns) /\ Len(file') = n
      BY <1>0
    <2> HIDE DEF Columns, n
    <2>2. DOMAIN file' = 1 .. n /\ Last(file') = file'[n] /\ file'[n] \in Columns
      BY <1>1, <2>1 DEF Last
    <2>3. Len(file'[n]) = m + 1
      BY <1>0, <1>1, <2>2
    <2> HIDE DEF m
    <2>4. DOMAIN file'[n] = 1 .. Len(file'[n])
      BY <2>2, Domain, Zenon DEF Columns
    <2> QED
      BY <2>1, <2>2, <2>3, <2>4
  <1>2. /\ \A i \in 1 .. n : i # n => file'[i] = file[i]
        /\ \A c \in 1 .. m : file'[n][c] = file[n][c]
        /\ file'[n][m + 1] = <<>>
    BY <1>0, <1>1, <1>3, Zenon
  <1>n. Len(file) = n /\ Len(Last(file)) = m /\ Len(Last(file')) = m + 1
    BY <1>1, <1>3
  <1> HIDE DEF n, m
  <1>4. Open'
    BY <1>1, <1>2, <1>3 DEF Open
  <1>5. FieldsFollow'
    <2> SUFFICES ASSUME NEW i \in 1 .. n, NEW c \in DOMAIN file'[i],
                        NEW k \in 1 .. MaxKeys, NEW to \in Recipient,
                        file'[i][c] = <<Field(k, to)>>
                 PROVE  /\ c > 2
                        /\ file'[i][c - 1] = <<ZeroCount(k)>>
                        /\ file'[i][c - 2] = <<Address(k)>>
      BY <1>3 DEF FieldsFollow, Field, ZeroCount, Address
    <2>1. CASE i # n
      BY <1>1, <1>2, <2>1 DEF FieldsFollow
    <2>2. CASE i = n /\ c # m + 1
      <3>1. c \in 1 .. m /\ file[n][c] = <<Field(k, to)>>
        BY <1>1, <1>2, <1>3, <2>2
      <3>2. /\ c > 2 /\ file[n][c - 1] = <<ZeroCount(k)>>
            /\ file[n][c - 2] = <<Address(k)>>
        BY <1>1, <3>1 DEF FieldsFollow
      <3>3. c - 1 \in 1 .. m /\ c - 2 \in 1 .. m
        BY <1>1, <3>1, <3>2
      <3> QED
        BY <1>2, <1>3, <2>2, <3>2, <3>3
    <2>3. CASE i = n /\ c = m + 1
      <3>1. file'[i][c] = <<>> /\ <<>> # <<Field(k, to)>>
        BY <1>2, <2>3
      <3> QED
        BY <3>1
    <2> QED
      BY <2>1, <2>2, <2>3
  <1>6. FieldsRevealed'
    <2> SUFFICES ASSUME NEW i \in 1 .. n, NEW c \in DOMAIN file'[i],
                        NEW q \in Range(file'[i][c]), q[1] = "field"
                 PROVE  q[2] \in 1 .. found /\ (q[3] = Plaintext => q[2] \in revealed)
      BY <1>3 DEF FieldsRevealed
    <2>1. CASE i # n
      BY <1>1, <1>2, <2>1 DEF FieldsRevealed
    <2>2. CASE i = n /\ c # m + 1
      BY <1>1, <1>2, <1>3, <2>2 DEF FieldsRevealed
    <2>3. CASE i = n /\ c = m + 1
      BY <1>2, <2>3 DEF Range
    <2> QED
      BY <2>1, <2>2, <2>3
  <1>7. Lost' = Lost
    <2>1. \A c : OnRecord(c)' <=> OnRecord(c)
      BY <1>1, <1>2, <1>3, <1>n DEF OnRecord
    <2> QED
      BY <2>1 DEF Lost
  <1>8. ASSUME NEW back \in 0 .. m - 1 PROVE Column(back + 1)' = Column(back)
    <2>1. m - back \in 1 .. m /\ (m + 1) - (back + 1) = m - back
      BY <1>1
    <2> QED
      BY <1>1, <1>2, <1>3, <1>n, <2>1 DEF Column
  <1>9. Column(0)' = <<>>
    <2>1. (m + 1) - 0 = m + 1
      BY <1>1
    <2> QED
      BY <1>2, <1>3, <1>n, <2>1 DEF Column
  <1> QED
    BY <1>0, <1>4, <1>5, <1>6, <1>7, <1>8, <1>9, <1>n

(* A new line: the last one is on record as it is now.                     *)
LEMMA NewlineFile ==
  ASSUME TypeOK, Open, FieldsFollow, FieldsRevealed, file' = Put(Newline),
         UNCHANGED <<found, revealed>>
  PROVE  /\ file' \in Seq(Seq(Seq(Piece)))
         /\ Open' /\ FieldsFollow' /\ FieldsRevealed'
         /\ Last(file)' = << <<>> >>
         /\ \A c : OnRecord(c) => OnRecord(c)'
         /\ \A c : /\ Len(Last(file)) >= 4
                   /\ Last(file)[4] = <<Field(c.key, c.sink)>>
                   /\ Last(file)[2] = <<Address(c.key)>>
                   => OnRecord(c)'
  <1> DEFINE n == Len(file)
  <1>1. /\ n \in Nat \ {0} /\ DOMAIN file = 1 .. n /\ n \in DOMAIN file
        /\ Last(file) = file[n] /\ n = Len(file)
    BY LastLine
  <1>2. /\ file' \in Seq(Seq(Seq(Piece)))
        /\ Len(file') = Len(file) + 1
        /\ \A i \in DOMAIN file : file'[i] = file[i]
        /\ Last(file') = << <<>> >>
    BY PutNewline
  <1> HIDE DEF n
  <1>3. DOMAIN file' = 1 .. n + 1 /\ Len(file') = n + 1
    <2> DEFINE Lines == Seq(Seq(Piece))
    <2>1. file' \in Seq(Lines)
      BY <1>2
    <2> HIDE DEF Lines
    <2> QED
      BY <1>1, <1>2, <2>1
  <1>4. /\ \A i \in 1 .. n : file'[i] = file[i]
        /\ file'[n + 1] = << <<>> >>
        /\ DOMAIN file'[n + 1] = {1} /\ file'[n + 1][1] = <<>>
    <2>1. \A i \in 1 .. n : file'[i] = file[i]
      BY <1>1, <1>2
    <2>2. Last(file') = file'[n + 1]
      BY <1>3 DEF Last
    <2> DEFINE fresh == << <<>> >>
    <2>3. DOMAIN fresh = {1} /\ fresh[1] = <<>>
      OBVIOUS
    <2>4. file'[n + 1] = fresh
      BY <1>2, <2>2
    <2> HIDE DEF fresh
    <2>5. DOMAIN file'[n + 1] = {1} /\ file'[n + 1][1] = <<>>
      BY <2>3, <2>4
    <2> QED
      BY <2>1, <2>4, <2>5 DEF fresh
  <1>5. Open'
    <2>1. file' # <<>> /\ file'[n + 1] # <<>>
      BY <1>1, <1>3, <1>4
    <2> QED
      BY <1>1, <1>3, <1>4, <2>1 DEF Open
  <1>6. FieldsFollow'
    <2> SUFFICES ASSUME NEW i \in 1 .. n + 1, NEW c \in DOMAIN file'[i],
                        NEW k \in 1 .. MaxKeys, NEW to \in Recipient,
                        file'[i][c] = <<Field(k, to)>>
                 PROVE  /\ c > 2
                        /\ file'[i][c - 1] = <<ZeroCount(k)>>
                        /\ file'[i][c - 2] = <<Address(k)>>
      BY <1>3 DEF FieldsFollow, Field, ZeroCount, Address
    <2>1. CASE i # n + 1
      BY <1>1, <1>4, <2>1 DEF FieldsFollow
    <2>2. CASE i = n + 1
      BY <1>4, <2>2
    <2> QED
      BY <2>1, <2>2
  <1>7. FieldsRevealed'
    <2> SUFFICES ASSUME NEW i \in 1 .. n + 1, NEW c \in DOMAIN file'[i],
                        NEW q \in Range(file'[i][c]), q[1] = "field"
                 PROVE  q[2] \in 1 .. found /\ (q[3] = Plaintext => q[2] \in revealed)
      BY <1>3 DEF FieldsRevealed
    <2>1. CASE i # n + 1
      BY <1>1, <1>4, <2>1 DEF FieldsRevealed
    <2>2. CASE i = n + 1
      BY <1>4, <2>2 DEF Range
    <2> QED
      BY <2>1, <2>2
  <1>8. \A c : OnRecord(c) => OnRecord(c)'
    BY <1>1, <1>3, <1>4 DEF OnRecord
  <1>9. ASSUME NEW c, Len(Last(file)) >= 4,
               Last(file)[4] = <<Field(c.key, c.sink)>>,
               Last(file)[2] = <<Address(c.key)>>
        PROVE  OnRecord(c)'
    <2>1. /\ n \in DOMAIN file' /\ n # Len(file') /\ Len(file'[n]) >= 4
          /\ file'[n][4] = <<Field(c.key, c.sink)>>
          /\ file'[n][2] = <<Address(c.key)>>
      <3>0. n \in Nat \ {0}
        BY <1>1
      <3>1. n \in 1 .. n /\ n \in 1 .. n + 1 /\ n # n + 1
        BY <3>0, OwnRange, Zenon
      <3>2. file'[n] = Last(file)
        BY <1>1, <1>4, <3>1, Zenon
      <3> QED
        BY <1>3, <1>9, <3>1, <3>2
    <2> QED
      BY <2>1 DEF OnRecord
  <1> QED
    BY <1>2, <1>5, <1>6, <1>7, <1>8, <1>9

LEMMA TailParts ==
  ASSUME NEW T, NEW s \in Seq(T), s # <<>>
  PROVE  /\ Tail(s) \in Seq(T) /\ Len(Tail(s)) = Len(s) - 1
         /\ \A i \in 1 .. Len(s) - 1 : Tail(s)[i] = s[i + 1]
  OBVIOUS

(* Where a line that is begun has come to.                                 *)
LEMMA CurrentLine ==
  ASSUME TypeOK, LineIsAt, line # <<>>
  PROVE  /\ found \in 1 .. MaxKeys /\ sink \in Recipient
         /\ Written \in 0 .. 7
         /\ Head(line) = Line(found)[Written + 1]
         /\ Written < 7 => IsRest(Tail(line), Written + 1)
         /\ Written = 7 => Tail(line) = <<>>
  <1>1. found \in 1 .. MaxKeys /\ sink \in Recipient
    BY Constants DEF TypeOK, LineIsAt
  <1>2. PICK n \in 0 .. 7 :
          /\ line \in Seq(Piece) /\ Len(line) = 8 - n
          /\ \A i \in 1 .. 8 - n : line[i] = Line(found)[i + n]
    BY DEF LineIsAt, IsRest
  <1>3. Written = n
    BY <1>2 DEF Written
  <1>4. Head(line) = Line(found)[n + 1]
    <2>1. Head(line) = line[1] /\ 1 \in 1 .. 8 - n /\ 1 + n = n + 1
      BY <1>2
    <2> QED
      BY <1>2, <2>1
  <1>5. /\ Tail(line) \in Seq(Piece) /\ Len(Tail(line)) = 7 - n
        /\ \A i \in 1 .. 7 - n : Tail(line)[i] = line[i + 1]
    BY <1>2, TailParts
  <1>6. n < 7 => IsRest(Tail(line), n + 1)
    <2>1. 8 - (n + 1) = 7 - n
      OBVIOUS
    <2>2. ASSUME NEW i \in 1 .. 7 - n PROVE Tail(line)[i] = Line(found)[i + (n + 1)]
      <3>1. i + 1 \in 1 .. 8 - n /\ (i + 1) + n = i + (n + 1)
        OBVIOUS
      <3> QED
        BY <1>2, <1>5, <3>1, Zenon
    <2>3. PICK t : t = Tail(line)
      OBVIOUS
    <2>4. t \in Seq(Piece) /\ Len(t) = 8 - (n + 1)
      BY <1>5, <2>1, <2>3
    <2>5. \A i \in 1 .. 8 - (n + 1) : t[i] = Line(found)[i + (n + 1)]
      BY <2>1, <2>2, <2>3, Zenon
    <2>6. IsRest(t, n + 1)
      BY <2>4, <2>5, Zenon DEF IsRest
    <2> QED
      BY ONLY <2>3, <2>6
  <1>7. n = 7 => Tail(line) = <<>>
    <2>1. PICK t \in Seq(Piece) : t = Tail(line) /\ Len(t) = 7 - n
      BY <1>5
    <2>2. n = 7 => t = <<>>
      BY ONLY <2>1, n \in 0 .. 7
    <2> QED
      BY <2>1, <2>2
  <1> QED
    BY <1>1, <1>3, <1>4, <1>6, <1>7

----------------------------------------------------------------------------
(* The steps of a run                                                      *)

(* A line of another key begins: its total goes to the last column there   *)
(* is, and if that is the only one the line is clean.                      *)
LEMMA FindKeyIInv ==
  ASSUME IInv, FindKey
  PROVE  IInv'
  <1> USE DEF IInv
  <1>1. /\ sink # None /\ line = <<>> /\ found' = found + 1
        /\ line' = Line(found + 1) \/ line' = <<>>
        /\ UNCHANGED <<recipient_file, keygen, generated, kept, sink, file, torn,
                       completed, revealed, died>>
    BY DEF FindKey, keys, history
  <1>2. found \in Nat /\ found' \in 1 .. MaxKeys /\ MaxKeys \in Nat
    BY <1>1, Constants DEF FindKey, TypeOK
  <1>3. TypeOK'
    BY <1>1, <1>2 DEF TypeOK
  <1>4. KeygenIsAt' /\ RecipientsSafe' /\ SecretsKept'
    BY <1>1 DEF KeygenIsAt, RecipientsSafe, SecretsKept, Safe
  <1>5. Written' = 0 /\ Written = 0
    <2>1. Len(Line(found + 1)) = 8
      BY DEF Line
    <2> QED
      BY <1>1, <2>1 DEF Written
  <1>6. LineIsAt'
    <2>1. CASE line' = <<>>
      BY <2>1 DEF LineIsAt
    <2>2. CASE line' = Line(found + 1)
      <3>1. Line(found)' = Line(found + 1)
        BY <1>1 DEF Line, Field
      <3>2. Line(found + 1) \in Seq(Piece)
        <4>1. sink \in Recipient
          BY <1>1 DEF TypeOK
        <4>2. /\ {<<"total", found + 1>>, Address(found + 1), ZeroCount(found + 1)}
                   \subseteq Piece
              /\ Field(found + 1, sink) \in Piece
              /\ Tab \in Piece /\ Newline \in Piece
          BY <1>1, <1>2, <4>1, PieceKinds
        <4> HIDE DEF Piece
        <4> QED
          BY <4>2 DEF Line
      <3>3. Len(Line(found + 1)) = 8
        BY DEF Line
      <3>4. IsRest(line, 0)'
        BY <2>2, <3>1, <3>2, <3>3 DEF IsRest
      <3> QED
        BY <1>1, <1>2, <3>4 DEF LineIsAt
    <2> QED
      BY <1>1, <2>1, <2>2
  <1>7. Open' /\ ColumnsAt' /\ FieldsFollow' /\ TearsPay'
    BY <1>1, <1>5 DEF Open, ColumnsAt, Column, FieldsFollow, TearsPay, Lost,
                      OnRecord, Clean
  <1>8. FieldsRevealed' /\ RunRevealed'
    BY <1>1, <1>2 DEF FieldsRevealed, RunRevealed
  <1> QED
    BY <1>3, <1>4, <1>6, <1>7, <1>8

(* The run ends between two lines.                                         *)
LEMMA StopIInv ==
  ASSUME IInv, Stop
  PROVE  IInv'
  <1> USE DEF IInv
  <1>1. /\ line = <<>> /\ sink' = None
        /\ UNCHANGED <<recipient_file, keygen, generated, kept, line, file, found,
                       torn, completed, revealed, died>>
    BY DEF Stop, keys, history
  <1>2. TypeOK'
    BY <1>1 DEF TypeOK
  <1>3. KeygenIsAt' /\ RecipientsSafe' /\ SecretsKept' /\ RunRevealed'
    BY <1>1, Constants DEF KeygenIsAt, RecipientsSafe, SecretsKept, Safe, RunRevealed
  <1>4. LineIsAt' /\ Open' /\ ColumnsAt' /\ FieldsFollow' /\ TearsPay' /\ FieldsRevealed'
    BY <1>1 DEF LineIsAt, Open, ColumnsAt, Column, Written, FieldsFollow, TearsPay,
                Lost, OnRecord, Clean, FieldsRevealed
  <1> QED
    BY <1>2, <1>3, <1>4

(* A line cut short may leave columns the next line runs into: that line   *)
(* is what its tear pays for.                                              *)
LEMMA CutShortIInv ==
  ASSUME IInv, CutShort, sink' \in {sink, None},
         UNCHANGED <<recipient_file, keygen, generated, kept, found, completed,
                     revealed, died>>
  PROVE  IInv'
  <1> USE DEF IInv
  <1>1. /\ line # <<>> /\ line' = <<>> /\ torn' = torn + 1
        /\ UNCHANGED file \/ \E p \in {Fragment, HalfCharacter} : file' = Put(p)
    BY DEF CutShort
  <1>2. /\ file' \in Seq(Seq(Seq(Piece)))
        /\ Open' /\ FieldsFollow' /\ FieldsRevealed' /\ Lost' = Lost
        /\ Len(Last(file)') = Len(Last(file))
    <2>1. CASE UNCHANGED file
      <3>1. file' \in Seq(Seq(Seq(Piece))) /\ Open' /\ Len(Last(file)') = Len(Last(file))
        BY <2>1 DEF TypeOK, Open
      <3>2. FieldsFollow' /\ FieldsRevealed'
        BY <2>1 DEF FieldsFollow, FieldsRevealed
      <3>3. Lost' = Lost
        BY <2>1 DEF Lost, OnRecord
      <3> QED
        BY <3>1, <3>2, <3>3
    <2>2. ASSUME NEW p \in {Fragment, HalfCharacter}, file' = Put(p)
          PROVE  /\ file' \in Seq(Seq(Seq(Piece)))
                 /\ Open' /\ FieldsFollow' /\ FieldsRevealed' /\ Lost' = Lost
                 /\ Len(Last(file)') = Len(Last(file))
      <3>1. p \in Piece /\ p \notin {Tab, Newline} /\ p[1] # "field"
        BY PieceKinds
      <3>2. \A k, to : p # Field(k, to)
        BY <3>1, FieldParts
      <3> QED
        BY <2>2, <3>1, <3>2, TextFile
    <2> QED
      BY <1>1, <2>1, <2>2
  <1>3. torn \in Nat /\ Len(Last(file)) \in Nat \ {0} /\ Cardinality(Lost) \in Nat
    <2>1. IsFiniteSet(Lost)
      BY FS_Subset DEF Lost, TypeOK
    <2> QED
      BY <2>1, LastLine, FS_CardinalityType DEF TypeOK
  <1>4. TypeOK'
    BY <1>1, <1>2, <1>3 DEF TypeOK
  <1>5. KeygenIsAt' /\ RecipientsSafe' /\ SecretsKept' /\ RunRevealed'
    BY <1>1, Constants DEF KeygenIsAt, RecipientsSafe, SecretsKept, Safe, RunRevealed
  <1>6. Written' = 0 /\ LineIsAt'
    BY <1>1 DEF Written, LineIsAt
  <1>7. ColumnsAt'
    BY <1>2, <1>3, <1>6 DEF ColumnsAt
  <1>8. TearsPay'
    BY <1>1, <1>2, <1>3 DEF TearsPay
  <1> QED
    BY <1>2, <1>4, <1>5, <1>6, <1>7, <1>8

LEMMA LinePieces ==
  ASSUME NEW k
  PROVE  /\ Line(k)[1] = <<"total", k>> /\ Line(k)[3] = Address(k)
         /\ Line(k)[5] = ZeroCount(k) /\ Line(k)[7] = Field(k, sink)
         /\ \A n \in {2, 4, 6} : Line(k)[n] = Tab
         /\ Line(k)[8] = Newline
  BY DEF Line

(* The rest of the line is shorter by the piece written.                   *)
LEMMA WritePieceAt ==
  ASSUME IInv, WritePiece
  PROVE  /\ found \in 1 .. MaxKeys /\ sink \in Recipient /\ Written \in 0 .. 7
         /\ file' = Put(Line(found)[Written + 1])
         /\ UNCHANGED <<recipient_file, keygen, generated, kept, sink, found, torn,
                        revealed, died>>
         /\ Written < 7 => Written' = Written + 1 /\ UNCHANGED completed
         /\ Written = 7 => /\ Written' = 0 /\ line' = <<>>
                           /\ completed' = completed \cup {[key |-> found, sink |-> sink]}
         /\ LineIsAt'
  <1> USE DEF IInv
  <1>1. /\ line # <<>> /\ file' = Put(Head(line)) /\ line' = Tail(line)
        /\ completed' = IF Head(line) = Newline
                          THEN completed \cup {[key |-> found, sink |-> sink]}
                          ELSE completed
        /\ UNCHANGED <<recipient_file, keygen, generated, kept, sink, found, torn,
                       revealed, died>>
    BY DEF WritePiece, keys
  <1>2. /\ found \in 1 .. MaxKeys /\ sink \in Recipient /\ Written \in 0 .. 7
        /\ Head(line) = Line(found)[Written + 1]
        /\ Written < 7 => IsRest(Tail(line), Written + 1)
        /\ Written = 7 => Tail(line) = <<>>
    BY <1>1, CurrentLine
  <1>3. CASE Written = 7
    <2>1. Head(line) = Newline /\ line' = <<>>
      BY <1>1, <1>2, <1>3, LinePieces
    <2>2. Written' = 0 /\ LineIsAt'
      BY <2>1 DEF Written, LineIsAt
    <2> QED
      BY <1>1, <1>2, <1>3, <2>1, <2>2
  <1>4. CASE Written < 7
    <2>1. Head(line) # Newline
      <3>1. Line(found)[Written + 1] \in {<<"total", found>>, Address(found),
              ZeroCount(found), Field(found, sink), Tab}
        <4>1. Written + 1 = 1 \/ Written + 1 = 3 \/ Written + 1 = 5
                \/ Written + 1 = 7 \/ Written + 1 \in {2, 4, 6}
          BY <1>2, <1>4
        <4> QED
          BY <4>1, LinePieces
      <3> QED
        BY <1>2, <3>1, PieceKinds
    <2>2. Len(line') = 7 - Written /\ line' # <<>>
      <3>1. Len(line') = 7 - Written
        BY <1>1, <1>2, <1>4 DEF IsRest
      <3>2. Len(line') # 0
        BY <1>2, <1>4, <3>1
      <3> QED
        BY <3>1, <3>2
    <2>3. Written' = Written + 1
      <3>1. Written' = 8 - Len(line')
        BY <2>2 DEF Written
      <3> QED
        BY <1>2, <2>2, <3>1
    <2>4. IsRest(line', Written + 1)
      BY <1>1, <1>2, <1>4
    <2>5. LineIsAt'
      <3>1. PICK n : n = Written + 1
        OBVIOUS
      <3>3. IsRest(line, n)'
        BY <1>1, <2>4, <3>1 DEF IsRest, Line, Field
      <3>2. Written + 1 \in 0 .. 7
        BY <1>2, <1>4
      <3> QED
        BY <1>1, <1>2, <3>1, <3>2, <3>3 DEF LineIsAt
    <2> QED
      BY <1>1, <1>2, <1>4, <2>1, <2>3, <2>5
  <1> QED
    BY <1>2, <1>3, <1>4

(* What the keys and the sink say does not change with a piece.            *)
LEMMA WritePieceKeys ==
  ASSUME IInv, WritePiece
  PROVE  KeygenIsAt' /\ RecipientsSafe' /\ SecretsKept' /\ RunRevealed'
  <1> USE DEF IInv
  <1>1. /\ UNCHANGED <<recipient_file, keygen, generated, kept, sink, found,
                       revealed, died>>
        /\ completed' \subseteq completed \cup {[key |-> found, sink |-> sink]}
        /\ line # <<>>
    BY DEF WritePiece, keys
  <1>2. RunRevealed'
    BY <1>1 DEF RunRevealed
  <1>3. KeygenIsAt' /\ RecipientsSafe' /\ SecretsKept'
    BY <1>1 DEF KeygenIsAt, RecipientsSafe, SecretsKept, Safe
  <1> QED
    BY <1>2, <1>3

(* The total, the address, the count or the field.                         *)
LEMMA WriteTextIInv ==
  ASSUME IInv, WritePiece, Written \in {0, 2, 4, 6}
  PROVE  IInv'
  <1> USE DEF IInv
  <1> DEFINE p == Line(found)[Written + 1]
  <1>1. /\ found \in 1 .. MaxKeys /\ sink \in Recipient
        /\ file' = Put(p)
        /\ UNCHANGED <<recipient_file, keygen, generated, kept, sink, found, torn,
                       revealed, died>>
        /\ Written' = Written + 1 /\ UNCHANGED completed
        /\ LineIsAt'
    BY WritePieceAt
  <1>2. /\ Written = 0 => p = <<"total", found>>
        /\ Written = 2 => p = Address(found)
        /\ Written = 4 => p = ZeroCount(found)
        /\ Written = 6 => p = Field(found, sink)
    BY LinePieces
  <1> HIDE DEF p
  <1>3. p \in Piece /\ p \notin {Tab, Newline}
    BY <1>1, <1>2, PieceKinds
  <1>4. p[1] = "field" => Written = 6 /\ p = Field(found, sink)
    BY <1>1, <1>2, PieceKinds
  <1>5. ASSUME NEW k \in 1 .. MaxKeys, NEW to \in Recipient, p = Field(k, to)
        PROVE  /\ Len(Last(file)) > 2
               /\ Column(1) = <<ZeroCount(k)>> /\ Column(2) = <<Address(k)>>
    <2>1. Written = 6 /\ k = found
      BY <1>4, <1>5, FieldParts
    <2>2. Len(Last(file)) \in Nat
      BY LastLine
    <2>3. Len(Last(file)) >= 4
      BY <2>1, <2>2 DEF ColumnsAt
    <2> QED
      BY <2>1, <2>2, <2>3 DEF ColumnsAt
  <1>6. p[1] = "field" => /\ p[2] \in 1 .. found
                          /\ p[3] = Plaintext => p[2] \in revealed
    <2> SUFFICES ASSUME p[1] = "field"
                 PROVE  p[2] \in 1 .. found /\ (p[3] = Plaintext => p[2] \in revealed)
      OBVIOUS
    <2>1. p[2] = found /\ p[3] = sink
      BY <1>4, FieldParts
    <2>2. line # <<>>
      BY DEF WritePiece
    <2> QED
      BY <1>1, <2>1, <2>2 DEF RunRevealed
  <1>7. /\ file' \in Seq(Seq(Seq(Piece)))
        /\ Open' /\ FieldsFollow' /\ FieldsRevealed'
        /\ Lost' = Lost
        /\ Len(Last(file)') = Len(Last(file))
        /\ \A back \in 1 .. Len(Last(file)) - 1 : Column(back)' = Column(back)
        /\ Column(0)' = Append(Column(0), p)
    BY <1>1, <1>3, <1>5, <1>6, TextFile
  <1>8. TypeOK'
    BY <1>1, <1>7 DEF TypeOK
  <1>9. Len(Last(file)) \in Nat \ {0}
    BY LastLine
  <1>10. ColumnsAt'
    <2>1. CASE Written = 0
      BY <1>1, <1>7, <1>9, <2>1 DEF ColumnsAt
    <2>2. CASE Written = 2
      <3>1. Column(0)' = <<Address(found)>>
        <4>1. Column(0) = <<>> /\ p = Address(found)
          BY <1>2, <2>2 DEF ColumnsAt
        <4>2. Column(0)' = Append(<<>>, p)
          BY <1>7, <4>1
        <4>3. Append(<<>>, p) = <<p>>
          OBVIOUS
        <4> QED
          BY <4>1, <4>2, <4>3
      <3>2. Len(Last(file)') >= 2
        BY <1>7, <2>2 DEF ColumnsAt
      <3> QED
        BY <1>1, <2>2, <3>1, <3>2 DEF ColumnsAt, Address
    <2>3. CASE Written = 4
      <3>1. Column(0)' = <<ZeroCount(found)>>
        BY <1>2, <1>7, <2>3 DEF ColumnsAt
      <3>2. Len(Last(file)) >= 3
        BY <1>7, <2>3 DEF ColumnsAt
      <3>3. Column(1)' = <<Address(found)>>
        BY <1>7, <1>9, <2>3, <3>2 DEF ColumnsAt
      <3> QED
        BY <1>1, <1>7, <2>3, <3>1, <3>2, <3>3 DEF ColumnsAt, Address, ZeroCount
    <2>4. CASE Written = 6
      <3>1. Column(0)' = <<Field(found, sink)>>
        BY <1>2, <1>7, <2>4 DEF ColumnsAt
      <3>2. Len(Last(file)) >= 4
        BY <1>7, <2>4 DEF ColumnsAt
      <3>3. /\ Column(1)' = <<ZeroCount(found)>>
            /\ Column(2)' = <<Address(found)>>
        BY <1>7, <1>9, <2>4, <3>2 DEF ColumnsAt
      <3> QED
        BY <1>1, <1>7, <2>4, <3>1, <3>2, <3>3
        DEF ColumnsAt, Address, ZeroCount, Field
    <2> QED
      BY <2>1, <2>2, <2>3, <2>4
  <1>11. TearsPay'
    <2>1. 1 + Written' \div 2 = 1 + Written \div 2
      BY <1>1
    <2> QED
      BY <1>1, <1>7, <2>1 DEF TearsPay, Clean
  <1> QED
    BY <1>1, <1>7, <1>8, <1>10, <1>11, WritePieceKeys

(* A tab opens the next column.                                            *)
LEMMA WriteTabIInv ==
  ASSUME IInv, WritePiece, Written \in {1, 3, 5}
  PROVE  IInv'
  <1> USE DEF IInv
  <1>1. /\ found \in 1 .. MaxKeys
        /\ file' = Put(Line(found)[Written + 1])
        /\ UNCHANGED <<recipient_file, keygen, generated, kept, sink, found, torn,
                       revealed, died>>
        /\ Written' = Written + 1 /\ UNCHANGED completed
        /\ LineIsAt'
    BY WritePieceAt
  <1>2. file' = Put(Tab)
    BY <1>1, LinePieces
  <1>3. /\ file' \in Seq(Seq(Seq(Piece)))
        /\ Open' /\ FieldsFollow' /\ FieldsRevealed'
        /\ Lost' = Lost
        /\ Len(Last(file)') = Len(Last(file)) + 1
        /\ \A back \in 0 .. Len(Last(file)) - 1 : Column(back + 1)' = Column(back)
        /\ Column(0)' = <<>>
    BY <1>1, <1>2, TabFile
  <1>4. TypeOK'
    BY <1>1, <1>3 DEF TypeOK
  <1>5. Len(Last(file)) \in Nat \ {0}
    BY LastLine
  <1>6. ColumnsAt'
    <2>0. /\ Column(1)' = Column(0)
          /\ Len(Last(file)) >= 2 => Column(2)' = Column(1)
      BY <1>3, <1>5
    <2>1. CASE Written = 1
      BY <1>1, <1>3, <1>5, <2>1 DEF ColumnsAt
    <2>2. CASE Written = 3
      <3>1. Len(Last(file)) >= 2 /\ Column(0) = <<Address(found)>>
        BY <2>2 DEF ColumnsAt
      <3> QED
        BY <1>1, <1>3, <1>5, <2>0, <2>2, <3>1 DEF ColumnsAt, Address
    <2>3. CASE Written = 5
      <3>1. /\ Len(Last(file)) >= 3 /\ Column(1) = <<Address(found)>>
            /\ Column(0) = <<ZeroCount(found)>>
        BY <2>3 DEF ColumnsAt
      <3> QED
        BY <1>1, <1>3, <1>5, <2>0, <2>3, <3>1 DEF ColumnsAt, Address, ZeroCount
    <2> QED
      BY <2>1, <2>2, <2>3
  <1>7. TearsPay'
    <2>1. 1 + Written' \div 2 = (1 + Written \div 2) + 1
      BY <1>1
    <2> QED
      BY <1>1, <1>3, <1>5, <2>1 DEF TearsPay, Clean
  <1> QED
    BY <1>1, <1>3, <1>4, <1>6, <1>7, WritePieceKeys

(* The line ends: it is on record if it was clean, and lost at the expense *)
(* of a tear if it was not.                                                *)
LEMMA WriteNewlineIInv ==
  ASSUME IInv, WritePiece, Written = 7
  PROVE  IInv'
  <1> USE DEF IInv
  <1>0. PICK c0 : c0 = [key |-> found, sink |-> sink]
    OBVIOUS
  <1>1. /\ found \in 1 .. MaxKeys
        /\ file' = Put(Line(found)[Written + 1])
        /\ UNCHANGED <<recipient_file, keygen, generated, kept, sink, found, torn,
                       revealed, died>>
        /\ Written' = 0 /\ completed' = completed \cup {c0}
        /\ LineIsAt'
    BY <1>0, WritePieceAt
  <1>c. c0.key = found /\ c0.sink = sink
    BY <1>0
  <1>2. file' = Put(Newline)
    BY <1>1, LinePieces
  <1>3. /\ file' \in Seq(Seq(Seq(Piece)))
        /\ Open' /\ FieldsFollow' /\ FieldsRevealed'
        /\ Last(file)' = << <<>> >>
        /\ \A c : OnRecord(c) => OnRecord(c)'
        /\ \A c : /\ Len(Last(file)) >= 4
                  /\ Last(file)[4] = <<Field(c.key, c.sink)>>
                  /\ Last(file)[2] = <<Address(c.key)>>
                  => OnRecord(c)'
    BY <1>1, <1>2, NewlineFile
  <1>4. IsFiniteSet(completed)
    BY DEF TypeOK
  <1>5. IsFiniteSet(completed')
    BY <1>1, <1>4, FS_AddElement
  <1>6. TypeOK'
    <2>1. \A c \in completed' : c.key \in 1 .. found'
      BY <1>1, <1>c DEF TypeOK
    <2> QED
      BY <1>1, <1>3, <1>5, <2>1 DEF TypeOK
  <1>7. Len(Last(file)') = 1
    BY <1>3
  <1>8. ColumnsAt' /\ Clean'
    BY <1>1, <1>7 DEF ColumnsAt, Clean
  <1>9. TearsPay'
    <2>1. Lost' \subseteq Lost \cup {c0}
      BY <1>1, <1>3 DEF Lost
    <2>2. Clean => OnRecord(c0)'
      <3> SUFFICES ASSUME Clean PROVE OnRecord(c0)'
        OBVIOUS
      <3>1. Len(Last(file)) = 4
        BY DEF Clean
      <3>2. Column(0) = Last(file)[4] /\ Column(2) = Last(file)[2]
        BY <3>1 DEF Column
      <3> QED
        <4>1. /\ Len(Last(file)) >= 4 /\ Last(file)[4] = <<Field(c0.key, c0.sink)>>
              /\ Last(file)[2] = <<Address(c0.key)>>
          BY <1>c, <3>1, <3>2 DEF ColumnsAt
        <4> QED
          BY <1>3, <4>1
    <2>3. Clean => Lost' \subseteq Lost
      <3>1. c0 \in Lost' => ~OnRecord(c0)'
        BY <1>1 DEF Lost
      <3> QED
        BY <2>1, <2>2, <3>1
    <2>4. /\ IsFiniteSet(Lost) /\ IsFiniteSet(Lost \cup {c0})
          /\ Cardinality(Lost) \in Nat
          /\ Cardinality(Lost \cup {c0}) <= Cardinality(Lost) + 1
      <3>1. IsFiniteSet(Lost)
        BY <1>4, FS_Subset DEF Lost
      <3>2. Cardinality(Lost) \in Nat
        BY <3>1, FS_CardinalityType
      <3>3. /\ IsFiniteSet(Lost \cup {c0})
            /\ Cardinality(Lost \cup {c0})
                 = IF c0 \in Lost THEN Cardinality(Lost) ELSE Cardinality(Lost) + 1
        BY <3>1, FS_AddElement
      <3> QED
        BY <3>1, <3>2, <3>3
    <2>5. /\ Cardinality(Lost') \in Nat
          /\ Cardinality(Lost') <= Cardinality(Lost \cup {c0})
          /\ Clean => Cardinality(Lost') <= Cardinality(Lost)
      BY <2>1, <2>3, <2>4, FS_Subset, FS_CardinalityType
    <2>6. Cardinality(Lost \cup {c0}) \in Nat /\ torn \in Nat
      BY <2>4, FS_CardinalityType DEF TypeOK
    <2>7. Cardinality(Lost') <= torn
      BY <2>4, <2>5, <2>6 DEF TearsPay
    <2>8. Cardinality(Lost)' = Cardinality(Lost')
      OBVIOUS
    <2> QED
      BY <1>1, <1>8, <2>5, <2>6, <2>7, <2>8 DEF TearsPay
  <1> QED
    BY <1>1, <1>3, <1>6, <1>8, <1>9, WritePieceKeys

LEMMA NextIInv == IInv /\ [Next]_vars => IInv'
  <1> SUFFICES ASSUME IInv, [Next]_vars PROVE IInv'
    OBVIOUS
  <1>1. CASE WritePiece
    <2>1. Written \in 0 .. 7
      BY <1>1, WritePieceAt
    <2>2. Written \in {0, 2, 4, 6} \/ Written \in {1, 3, 5} \/ Written = 7
      BY <2>1
    <2> QED
      BY <1>1, <2>2, WriteTextIInv, WriteTabIInv, WriteNewlineIInv
  <1>2. CASE WriteFails \/ Crash
    <2>1. /\ CutShort /\ sink' \in {sink, None}
          /\ UNCHANGED <<recipient_file, keygen, generated, kept, found, completed,
                         revealed, died>>
      BY <1>2 DEF WriteFails, Crash, keys
    <2> QED
      BY <2>1, CutShortIInv
  <1>3. CASE UNCHANGED vars
    <2>1. UNCHANGED <<recipient_file, keygen, generated, kept, sink, line, file, found,
                      torn, completed, revealed, died>>
      BY <1>3 DEF vars, keys, history
    <2>2. TypeOK' /\ KeygenIsAt' /\ RecipientsSafe' /\ SecretsKept' /\ RunRevealed'
      BY <2>1 DEF IInv, TypeOK, KeygenIsAt, RecipientsSafe, SecretsKept, Safe,
                  RunRevealed
    <2>3. Open' /\ FieldsFollow' /\ FieldsRevealed'
      BY <2>1 DEF IInv, Open, FieldsFollow, FieldsRevealed
    <2>4. Written' = Written /\ \A n : Column(n)' = Column(n)
      BY <2>1 DEF Written, Column
    <2>5. LineIsAt' /\ ColumnsAt'
      BY <2>1, <2>4 DEF IInv, LineIsAt, IsRest, Line, ColumnsAt, Field
    <2>6. TearsPay'
      BY <2>1, <2>4 DEF IInv, TearsPay, Lost, OnRecord, Clean
    <2> QED
      BY <2>2, <2>3, <2>5, <2>6 DEF IInv
  <1> QED
    BY <1>1, <1>2, <1>3, KeygenIInv, StartIInv, FindKeyIInv, StopIInv
    DEF Next, Miner

----------------------------------------------------------------------------
(* The invariant, of every behaviour.                                      *)
THEOREM Invariance == Spec => []IInv
  <1>1. Init => IInv
    BY InitIInv
  <1>2. IInv /\ [Next]_vars => IInv'
    BY NextIInv
  <1> QED
    BY <1>1, <1>2, PTL DEF Spec

(* Every recipient that a line was written for has its secret in           *)
(* somebody's hands, across restarts and new recipients, except one: the   *)
(* recipient of a keygen that is still on its way, or that died before it  *)
(* printed.                                                                *)
THEOREM SecretsAlwaysKept == Spec => []SecretsKept
  <1>1. IInv => SecretsKept
    BY DEF IInv
  <1> QED
    BY <1>1, Invariance, PTL

(* A key is in the file in plaintext only if --reveal was among the        *)
(* arguments of its run, whatever the environment and the recipient file.  *)
THEOREM AlwaysFailsClosed == Spec => []FailClosed
  <1>1. IInv => FailClosed
    BY DEF IInv, FieldsRevealed, FailClosed
  <1> QED
    BY <1>1, Invariance, PTL

(* A key is never recovered under the address or the count of another,     *)
(* wherever lines were cut short and ran into the next.                    *)
THEOREM NeverFalse == Spec => []NoFalseRecovery
  <1>1. ASSUME IInv PROVE NoFalseRecovery
    <2> SUFFICES ASSUME NEW i \in Identity, NEW r \in Recovered(i)
                 PROVE  r.address = <<Address(r.key)>> /\ r.zeros = <<ZeroCount(r.key)>>
      BY DEF NoFalseRecovery
    <2>1. PICK cols \in Range(file) :
            /\ HasColumns(cols)
            /\ \E k \in 1 .. found :
                 /\ Decrypts(Field(k, i), cols)
                 /\ r = [address |-> cols[2], zeros |-> cols[3], key |-> k]
      BY DEF Recovered, InLines
    <2>2. PICK k \in 1 .. found :
            /\ cols[4] = <<Field(k, i)>>
            /\ r = [address |-> cols[2], zeros |-> cols[3], key |-> k]
      BY <2>1 DEF Decrypts
    <2>3. PICK n \in DOMAIN file : cols = file[n]
      BY <2>1 DEF Range
    <2>4. 4 \in DOMAIN cols /\ k \in 1 .. MaxKeys /\ i \in Recipient
      BY <1>1, <2>1, <2>3, LastLine, Constants
      DEF IInv, TypeOK, HasColumns, Recipient
    <2>5. cols[4 - 1] = <<ZeroCount(k)>> /\ cols[4 - 2] = <<Address(k)>>
      BY <1>1, <2>2, <2>3, <2>4 DEF IInv, FieldsFollow
    <2> QED
      BY <2>2, <2>5
  <1> QED
    BY <1>1, Invariance, PTL

LEMMA NewDomains ==
  ASSUME NEW new \in Seq(Seq(Seq(Piece)))
  PROVE  /\ Len(new) \in Nat /\ DOMAIN new = 1 .. Len(new)
         /\ \A i \in DOMAIN new : DOMAIN new[i] = 1 .. Len(new[i])
         /\ Len(new) # 0 => Last(new) = new[Len(new)]
  <1> DEFINE Columns == Seq(Seq(Piece))
  <1>1. \A l \in Columns : DOMAIN l = 1 .. Len(l)
    OBVIOUS
  <1>2. new \in Seq(Columns)
    OBVIOUS
  <1> HIDE DEF Columns
  <1> QED
    BY <1>1, <1>2 DEF Last

(* No piece that is written whole ends inside a character.                 *)
LEMMA PutUtf8 ==
  ASSUME TypeOK, Open, IsUtf8,
         NEW p \in Piece, p # HalfCharacter, file' = Put(p)
  PROVE  IsUtf8'
  <1> DEFINE n == Len(file)
             m == Len(file[n])
             new == file'
  <1>1. /\ n \in Nat \ {0} /\ DOMAIN file = 1 .. n /\ Last(file) = file[n]
        /\ m \in Nat \ {0} /\ DOMAIN file[n] = 1 .. m
        /\ file[n][m] \in Seq(Piece)
    BY LastLine
  <1>2. \A i \in 1 .. n : \A c \in DOMAIN file[i] :
          HalfCharacter \notin Range(file[i][c])
    BY <1>1 DEF IsUtf8
  <1>3. SUFFICES ASSUME NEW i \in DOMAIN new, NEW c \in DOMAIN new[i]
                 PROVE  HalfCharacter \notin Range(new[i][c])
    BY DEF IsUtf8
  <1>4. CASE p \notin {Tab, Newline}
    <2>1. /\ new \in Seq(Seq(Seq(Piece))) /\ Len(new) = n
          /\ \A j \in 1 .. n : j # n => new[j] = file[j]
          /\ Len(Last(new)) = m
          /\ \A k \in 1 .. m : k # m => Last(new)[k] = file[n][k]
          /\ Last(new)[m] = Append(file[n][m], p)
      BY <1>1, <1>4, PutText
    <2>2. HalfCharacter \notin Range(Append(file[n][m], p))
      <3> DEFINE s == file[n][m]
      <3>1. s \in Seq(Piece) /\ HalfCharacter \notin Range(s)
        BY <1>1, <1>2
      <3> HIDE DEF s
      <3>2. \A j \in DOMAIN Append(s, p) :
              Append(s, p)[j] = p \/ (j \in DOMAIN s /\ Append(s, p)[j] = s[j])
        BY <3>1
      <3>3. HalfCharacter \notin Range(Append(s, p))
        BY <3>1, <3>2 DEF Range
      <3> QED
        BY <3>3 DEF s
    <2>3. /\ i \in 1 .. n /\ Last(new) = new[n] /\ c \in 1 .. Len(new[i])
      BY <1>1, <2>1, NewDomains
    <2>4. CASE i # n
      BY <1>2, <2>1, <2>3, <2>4
    <2>5. CASE i = n /\ c # m
      <3>1. c \in 1 .. m /\ new[i][c] = file[n][c]
        BY <2>1, <2>3, <2>5
      <3> QED
        BY <1>1, <1>2, <3>1
    <2>6. CASE i = n /\ c = m
      BY <2>1, <2>2, <2>3, <2>6
    <2> QED
      BY <2>4, <2>5, <2>6
  <1>5. CASE p = Tab
    <2>1. /\ new \in Seq(Seq(Seq(Piece))) /\ Len(new) = n
          /\ \A j \in 1 .. n : j # n => new[j] = file[j]
          /\ Len(Last(new)) = m + 1
          /\ \A k \in 1 .. m : Last(new)[k] = file[n][k]
          /\ Last(new)[m + 1] = <<>>
      BY <1>1, <1>5, PutTab
    <2>2. HalfCharacter \notin Range(<<>>)
      BY DEF Range
    <2>3. /\ i \in 1 .. n /\ Last(new) = new[n] /\ c \in 1 .. Len(new[i])
      BY <1>1, <2>1, NewDomains
    <2>4. CASE i # n
      BY <1>2, <2>1, <2>3, <2>4
    <2>5. CASE i = n /\ c # m + 1
      <3>1. new[i] = Last(new) /\ c \in 1 .. m + 1 /\ c # m + 1
        BY <2>1, <2>3, <2>5
      <3>2. c \in 1 .. m
        BY <1>1, <3>1
      <3> QED
        <4>1. new[i][c] = file[n][c]
          BY <2>1, <3>1, <3>2
        <4>2. n \in 1 .. n /\ c \in DOMAIN file[n]
          BY <1>1, <3>2
        <4> QED
          BY <1>2, <4>1, <4>2
    <2>6. CASE i = n /\ c = m + 1
      BY <2>1, <2>2, <2>3, <2>6
    <2> QED
      BY <2>4, <2>5, <2>6
  <1>6. CASE p = Newline
    <2>1. /\ new \in Seq(Seq(Seq(Piece))) /\ Len(new) = n + 1
          /\ \A j \in 1 .. n : new[j] = file[j]
          /\ Last(new) = << <<>> >>
      BY <1>1, <1>6, PutNewline
    <2>2. \A k \in DOMAIN Last(new) : Last(new)[k] = <<>>
      BY <2>1
    <2>3. HalfCharacter \notin Range(<<>>)
      BY DEF Range
    <2>4. i \in 1 .. n + 1 /\ Last(new) = new[n + 1]
      <3>1. /\ DOMAIN new = 1 .. Len(new)
            /\ Len(new) # 0 => Last(new) = new[Len(new)]
        BY <2>1, NewDomains
      <3>2. n + 1 # 0
        BY <1>1
      <3> QED
        BY <2>1, <3>1, <3>2
    <2>5. CASE i # n + 1
      <3>1. i \in 1 .. n /\ new[i] = file[i]
        BY <1>1, <2>1, <2>4, <2>5
      <3> QED
        BY <1>2, <3>1
    <2>6. CASE i = n + 1
      BY <2>2, <2>3, <2>4, <2>6
    <2> QED
      BY <2>5, <2>6
  <1> QED
    BY <1>4, <1>5, <1>6

(* The file reads as text until a line is cut short.                       *)
Utf8UnlessTorn == torn = 0 => IsUtf8

(* Only a line cut short leaves half a character behind.                   *)
LEMMA AlwaysUtf8UnlessTorn == Spec => []Utf8UnlessTorn
  <1>1. Init => Utf8UnlessTorn
    <2> SUFFICES ASSUME Init PROVE IsUtf8
      BY DEF Utf8UnlessTorn
    <2>1. file = << << <<>> >> >>
      BY DEF Init
    <2>2. DOMAIN file = {1} /\ DOMAIN file[1] = {1} /\ file[1][1] = <<>>
      BY <2>1
    <2> QED
      BY <2>2 DEF IsUtf8, Range
  <1>2. ASSUME IInv, Utf8UnlessTorn, [Next]_vars PROVE Utf8UnlessTorn'
    <2>1. CASE WritePiece
      <3>1. /\ file' = Put(Line(found)[Written + 1]) /\ torn' = torn
            /\ found \in 1 .. MaxKeys /\ sink \in Recipient /\ Written \in 0 .. 7
        BY <1>2, <2>1, WritePieceAt
      <3>2. Line(found)[Written + 1] \in
              {<<"total", found>>, Address(found), ZeroCount(found),
               Field(found, sink), Tab, Newline}
        <4>1. Written + 1 = 1 \/ Written + 1 = 3 \/ Written + 1 = 5
                \/ Written + 1 = 7 \/ Written + 1 = 8 \/ Written + 1 \in {2, 4, 6}
          BY <3>1
        <4> QED
          BY <4>1, LinePieces
      <3>3. /\ Line(found)[Written + 1] \in Piece
            /\ Line(found)[Written + 1] # HalfCharacter
        BY <3>1, <3>2, PieceKinds
      <3> QED
        BY <1>2, <3>1, <3>3, PutUtf8 DEF IInv, Utf8UnlessTorn
    <2>2. CASE WriteFails \/ Crash
      <3>1. torn' = torn + 1 /\ torn \in Nat
        BY <1>2, <2>2 DEF WriteFails, Crash, CutShort, IInv, TypeOK
      <3> QED
        BY <3>1 DEF Utf8UnlessTorn
    <2>3. CASE Keygen \/ Start \/ FindKey \/ Stop \/ UNCHANGED vars
      <3>1. UNCHANGED <<file, torn>>
        BY <2>3 DEF Keygen, Start, FindKey, Stop, vars, history
      <3> QED
        BY <1>2, <3>1 DEF Utf8UnlessTorn, IsUtf8
    <2> QED
      BY <1>2, <2>1, <2>2, <2>3 DEF Next, Miner
  <1> QED
    BY <1>1, <1>2, Invariance, PTL DEF Spec

(* While decrypt can read the file, each line cut short has spoiled at     *)
(* most one complete line: no more keys are lost than lines were torn.     *)
(* And nothing but a line cut short makes the file unreadable.             *)
THEOREM LossAlwaysBounded == Spec => []LossBounded
  <1>1. ASSUME IInv, Utf8UnlessTorn PROVE LossBounded
    <2> DEFINE spoiled == {c \in completed : c.sink \in Identity /\ ~Recoverable(c)}
    <2>1. ASSUME IsUtf8, NEW c \in completed, OnRecord(c) PROVE Recoverable(c)
      <3>1. PICK i \in DOMAIN file :
              /\ Len(file[i]) >= 4
              /\ file[i][4] = <<Field(c.key, c.sink)>>
              /\ file[i][2] = <<Address(c.key)>>
        BY <2>1 DEF OnRecord
      <3> DEFINE cols == file[i]
                 r == [address |-> cols[2], zeros |-> cols[3], key |-> c.key]
      <3>2. /\ cols \in Range(file) /\ HasColumns(cols)
            /\ Decrypts(Field(c.key, c.sink), cols)
            /\ c.key \in 1 .. found
        BY <1>1, <3>1 DEF IInv, TypeOK, HasColumns, Decrypts, Range
      <3>3. r \in InLines(c.sink)
        <4> HIDE DEF cols
        <4> QED
          BY <3>2 DEF InLines
      <3> QED
        BY <2>1, <3>1, <3>3 DEF Recoverable, Recovered
    <2>2. IsUtf8 => spoiled \subseteq Lost
      BY <2>1 DEF Lost
    <2>3. IsFiniteSet(Lost)
      BY <1>1, FS_Subset DEF IInv, TypeOK, Lost
    <2>4. ASSUME IsUtf8
          PROVE  /\ Cardinality(spoiled) \in Nat /\ Cardinality(Lost) \in Nat
                 /\ Cardinality(spoiled) <= Cardinality(Lost)
      BY <2>2, <2>3, <2>4, FS_Subset, FS_CardinalityType
    <2>5. torn \in Nat
      BY <1>1 DEF IInv, TypeOK
    <2>6. CASE IsUtf8
      BY <1>1, <2>4, <2>5, <2>6 DEF IInv, TearsPay, LossBounded
    <2>7. CASE ~IsUtf8
      BY <1>1, <2>5, <2>7 DEF LossBounded, Utf8UnlessTorn
    <2> QED
      BY <2>6, <2>7
  <1> QED
    BY <1>1, Invariance, AlwaysUtf8UnlessTorn, PTL

----------------------------------------------------------------------------
(* The notation                                                            *)

(* The first z nibbles of a are its leading zeros.                         *)
LeadingZeros(a, z) ==
  /\ z \in 0 .. Len(a)
  /\ \A i \in 1 .. z : a[i] = 0
  /\ z < Len(a) => a[z + 1] # 0

LEMMA ZerosLead ==
  ASSUME NEW a \in Seq(0 .. 15)
  PROVE  \E z \in 0 .. Len(a) : LeadingZeros(a, z)
  <1> DEFINE Good == {n \in Nat : n <= Len(a) => \A i \in 1 .. n : a[i] = 0}
  <1>1. CASE \E n \in Nat : n \in Good /\ n + 1 \notin Good
    <2>1. PICK n \in Nat : n \in Good /\ n + 1 \notin Good
      BY <1>1
    <2>2. n + 1 <= Len(a) /\ n + 1 \in Nat
      BY <2>1
    <2>3. PICK i \in 1 .. n + 1 : a[i] # 0
      BY <2>1, <2>2
    <2>4. \A j \in 1 .. n : a[j] = 0
      BY <2>1, <2>2
    <2>5. i = n + 1
      BY <2>1, <2>3, <2>4
    <2>6. n \in 0 .. Len(a) /\ LeadingZeros(a, n)
      BY <2>1, <2>2, <2>3, <2>4, <2>5 DEF LeadingZeros
    <2> QED
      BY <2>6
  <1>2. CASE \A n \in Good : n + 1 \in Good
    <2>1. 0 \in Good /\ Good \in SUBSET Nat
      OBVIOUS
    <2> HIDE DEF Good
    <2>2. Good = Nat
      BY <1>2, <2>1, GoodNaturals
    <2>3. Len(a) \in Good
      BY <2>2
    <2>4. \A i \in 1 .. Len(a) : a[i] = 0
      BY <2>3 DEF Good
    <2> QED
      BY <2>4 DEF LeadingZeros
  <1> QED
    BY <1>1, <1>2

LEMMA CharactersCount ==
  ASSUME NEW a \in Seq(0 .. 15), NEW z \in 0 .. Len(a), LeadingZeros(a, z)
  PROVE  count_leading_zeros(a) = z
  <1>1. {i \in DOMAIN a : \A j \in 1 .. i : a[j] = 0} = 1 .. z
    <2>1. ASSUME NEW i \in 1 .. Len(a), \A j \in 1 .. i : a[j] = 0 PROVE i <= z
      <3> SUFFICES ASSUME z < i PROVE FALSE
        OBVIOUS
      <3>1. z + 1 \in 1 .. i
        OBVIOUS
      <3> QED
        BY <2>1, <3>1 DEF LeadingZeros
    <2> QED
      BY <2>1 DEF LeadingZeros
  <1>2. Cardinality(1 .. z) = z
    BY FS_Interval
  <1> QED
    BY <1>1, <1>2 DEF count_leading_zeros

(* The kernels' count by bytes is the count by characters.                 *)
LEMMA BytesCount ==
  ASSUME NEW a \in Seq(0 .. 15), Len(a) % 2 = 0,
         NEW z \in 0 .. Len(a), LeadingZeros(a, z)
  PROVE  leading_zero_nibbles(a) = z
  <1> DEFINE rest == {b \in 1 .. Len(a) \div 2 : a[2 * b - 1] # 0 \/ a[2 * b] # 0}
             first == CHOOSE b \in rest : \A c \in rest : b <= c
  <1>1. leading_zero_nibbles(a) =
          IF rest = {} THEN Len(a)
          ELSE 2 * (first - 1) + IF a[2 * first - 1] = 0 THEN 1 ELSE 0
    BY DEF leading_zero_nibbles
  <1>2. PICK half \in Nat : Len(a) = 2 * half /\ Len(a) \div 2 = half
    <2>1. Len(a) = 2 * (Len(a) \div 2) /\ Len(a) \div 2 \in Nat
      OBVIOUS
    <2> QED
      BY <2>1
  <1>3. CASE z = Len(a)
    <2>1. rest = {}
      BY <1>2, <1>3 DEF LeadingZeros
    <2> HIDE DEF rest
    <2> QED
      BY <1>1, <1>3, <2>1
  <1>4. CASE z < Len(a)
    <2>1. PICK h \in Nat : z = 2 * h \/ z = 2 * h + 1
      <3>1. (z = 2 * (z \div 2) \/ z = 2 * (z \div 2) + 1) /\ z \div 2 \in Nat
        OBVIOUS
      <3> QED
        BY <3>1
    <2>2. h + 1 \in rest
      BY <1>2, <1>4, <2>1 DEF LeadingZeros
    <2>3. \A c \in rest : h + 1 <= c
      <3> SUFFICES ASSUME NEW c \in 1 .. Len(a) \div 2, c <= h
                   PROVE  a[2 * c - 1] = 0 /\ a[2 * c] = 0
        OBVIOUS
      <3> QED
        BY <1>2, <2>1 DEF LeadingZeros
    <2>4. a[2 * (h + 1) - 1] = 0 <=> z = 2 * h + 1
      BY <1>4, <2>1 DEF LeadingZeros
    <2>5. \A b \in rest : b \in Nat
      BY <1>2
    <2> HIDE DEF rest
    <2>6. first \in rest /\ \A c \in rest : first <= c
      BY <2>2, <2>3
    <2> HIDE DEF first
    <2>7. first = h + 1
      BY <2>2, <2>3, <2>5, <2>6
    <2> QED
      BY <1>1, <2>1, <2>2, <2>4, <2>7
  <1> QED
    BY <1>3, <1>4

LEMMA DigitsOf ==
  ASSUME NEW a \in Seq(0 .. 15)
  PROVE  Expanded(Digits(a)) = a
  <1>1. Digits(a) = [i \in 1 .. Len(a) |-> <<"hex", a[i]>>]
    BY DEF Digits, Hex
  <1>2. {i \in DOMAIN Digits(a) : Digits(a)[i][1] = "subscript"} = {}
    BY <1>1
  <1>3. Expanded(Digits(a)) =
          [i \in DOMAIN Digits(a) |->
             IF Digits(a)[i][1] = "hex" THEN Digits(a)[i][2] ELSE 0]
    BY <1>2 DEF Expanded
  <1> QED
    BY <1>1, <1>3

(* A text of n characters.                                                 *)
IsText(s, n) == n \in Nat /\ s = [i \in 1 .. n |-> s[i]]

(* The m characters of s and then the n of t.                              *)
Joined(both, s, m, t, n) ==
  /\ IsText(both, m + n)
  /\ \A i \in 1 .. m : both[i] = s[i]
  /\ \A i \in 1 .. n : both[m + i] = t[i]

LEMMA SequenceIsText ==
  ASSUME NEW S, NEW s \in Seq(S)
  PROVE  IsText(s, Len(s))
  BY DEF IsText

LEMMA TextOf ==
  ASSUME NEW n, NEW s, IsText(s, n), NEW S, \A i \in 1 .. n : s[i] \in S
  PROVE  s \in Seq(S)
  BY DEF IsText

LEMMA Concatenated ==
  ASSUME NEW m, NEW s, IsText(s, m), NEW n, NEW t, IsText(t, n),
         NEW both, both = s \o t
  PROVE  Joined(both, s, m, t, n)
  <1> DEFINE S == {s[i] : i \in 1 .. m} \cup {t[i] : i \in 1 .. n}
  <1>1. m \in Nat /\ n \in Nat /\ Len(s) = m /\ Len(t) = n
    BY DEF IsText
  <1>0. s \in Seq(S) /\ t \in Seq(S)
    <2>1. (\A i \in 1 .. m : s[i] \in S) /\ (\A i \in 1 .. n : t[i] \in S)
      OBVIOUS
    <2> HIDE DEF S
    <2> QED
      BY <2>1, TextOf
  <1> HIDE DEF S
  <1>2. /\ both \in Seq(S) /\ Len(both) = m + n
        /\ \A i \in 1 .. m + n : both[i] = IF i <= m THEN s[i] ELSE t[i - m]
    BY <1>1, <1>0, ConcatProperties
  <1>3. IsText(both, m + n) /\ \A i \in 1 .. m : both[i] = s[i]
    BY <1>1, <1>2 DEF IsText
  <1>4. ASSUME NEW i \in 1 .. n PROVE both[m + i] = t[i]
    <2>1. m + i \in 1 .. m + n /\ ~(m + i <= m) /\ (m + i) - m = i
      BY <1>1
    <2> QED
      BY <1>2, <2>1
  <1> QED
    BY <1>3, <1>4 DEF Joined

LEMMA TextParts ==
  ASSUME NEW n, NEW s, IsText(s, n)
  PROVE  n \in Nat /\ Len(s) = n /\ DOMAIN s = 1 .. n
  BY DEF IsText

LEMMA SameText ==
  ASSUME NEW n, NEW s, IsText(s, n), NEW t, IsText(t, n), \A i \in 1 .. n : s[i] = t[i]
  PROVE  s = t
  BY DEF IsText

(* The d characters of s are subscripts that say z.                        *)
ShowsCount(s, d, z) ==
  /\ IsText(s, d) /\ d \in {1, 2}
  /\ \A i \in 1 .. d : s[i][1] = "subscript"
  /\ z = IF d = 1 THEN s[1][2] ELSE 10 * s[1][2] + s[2][2]

LEMMA CountShown ==
  ASSUME NEW z \in 4 .. 40
  PROVE  \E d : ShowsCount(to_subscript(z), d, z)
  <1>1. CASE z < 10
    <2>1. Decimal(z) = <<z>>
      BY <1>1 DEF Decimal
    <2>2. to_subscript(z) = [i \in 1 .. 1 |-> <<"subscript", <<z>>[i]>>]
      BY <2>1 DEF to_subscript, Subscript
    <2>3. ShowsCount(to_subscript(z), 1, z)
      BY <2>2 DEF ShowsCount, IsText
    <2> QED
      BY <2>3
  <1>2. CASE z >= 10
    <2>1. PICK high \in Nat, low \in Nat : Decimal(z) = <<high, low>> /\ z = 10 * high + low
      <3>1. z = 10 * (z \div 10) + (z % 10) /\ z \div 10 \in Nat /\ z % 10 \in Nat
        OBVIOUS
      <3> QED
        BY <1>2, <3>1 DEF Decimal
    <2>2. to_subscript(z) = [i \in 1 .. 2 |-> <<"subscript", <<high, low>>[i]>>]
      BY <2>1 DEF to_subscript, Subscript
    <2>3. PICK s : s = to_subscript(z)
      OBVIOUS
    <2>4. /\ IsText(s, 2)
          /\ s[1] = <<"subscript", high>> /\ s[2] = <<"subscript", low>>
      BY <2>2, <2>3 DEF IsText
    <2>5. ShowsCount(s, 2, z)
      BY <2>1, <2>4 DEF ShowsCount
    <2> QED
      BY <2>3, <2>5
  <1> QED
    BY <1>1, <1>2

(* A 0, d subscripts that say z, and the n digits of tail.                 *)
Compact(text, d, z, tail, n) ==
  /\ IsText(text, 1 + d + n)
  /\ text[1] = Hex(0)
  /\ d \in {1, 2} /\ \A i \in 1 .. d : text[1 + i][1] = "subscript"
  /\ z = IF d = 1 THEN text[2][2] ELSE 10 * text[2][2] + text[3][2]
  /\ \A i \in 1 .. n : text[1 + d + i] = Hex(tail[i])

LEMMA CompactIs ==
  ASSUME NEW z \in 4 .. 40, NEW n, NEW tail, IsText(tail, n),
         NEW text, text = <<Hex(0)>> \o to_subscript(z) \o Digits(tail)
  PROVE  \E d : Compact(text, d, z, tail, n)
  <1>1. PICK d, s : s = to_subscript(z) /\ ShowsCount(s, d, z)
    BY CountShown
  <1>2. PICK one, head, rest : one = <<Hex(0)>> /\ head = one \o s /\ rest = Digits(tail)
    OBVIOUS
  <1>3. IsText(one, 1) /\ one[1] = Hex(0) /\ IsText(s, d) /\ d \in {1, 2}
    BY <1>1, <1>2 DEF IsText, ShowsCount
  <1>4. IsText(rest, n) /\ \A i \in 1 .. n : rest[i] = Hex(tail[i])
    BY <1>2, TextParts DEF Digits, IsText
  <1>5. Joined(head, one, 1, s, d)
    BY <1>2, <1>3, Concatenated
  <1>6. Joined(text, head, 1 + d, rest, n)
    <2>1. IsText(head, 1 + d) /\ text = head \o rest
      BY <1>1, <1>2, <1>5 DEF Joined
    <2> QED
      BY <1>4, <2>1, Concatenated
  <1>7. IsText(text, 1 + d + n) /\ \A i \in 1 .. n : text[1 + d + i] = Hex(tail[i])
    BY <1>4, <1>6 DEF Joined
  <1>8. text[1] = Hex(0)
    <2>1. 1 \in 1 .. 1 /\ 1 \in 1 .. 1 + d
      BY <1>3
    <2> QED
      BY <1>3, <1>5, <1>6, <2>1 DEF Joined
  <1>9. ASSUME NEW i \in 1 .. d, NEW j, j = 1 + i PROVE text[j] = s[i]
    <2>1. j \in 1 .. 1 + d
      BY <1>3, <1>9
    <2> QED
      BY <1>5, <1>6, <1>9, <2>1 DEF Joined
  <1>10. ASSUME NEW i \in 1 .. d PROVE text[1 + i][1] = "subscript"
    <2>1. PICK c, j : c = s[i] /\ j = 1 + i
      OBVIOUS
    <2>2. text[j] = c
      BY <1>9, <2>1
    <2>3. c[1] = "subscript"
      BY <1>1, <2>1 DEF ShowsCount
    <2> QED
      BY <2>1, <2>2, <2>3
  <1>11. z = IF d = 1 THEN text[2][2] ELSE 10 * text[2][2] + text[3][2]
    <2>1. CASE d = 1
      <3>1. 1 \in 1 .. d /\ 2 = 1 + 1
        BY <2>1
      <3>2. text[2] = s[1]
        BY <1>9, <3>1
      <3> QED
        BY <1>1, <2>1, <3>2 DEF ShowsCount
    <2>2. CASE d = 2
      <3>1. 1 \in 1 .. d /\ 2 \in 1 .. d /\ 2 = 1 + 1 /\ 3 = 1 + 2
        BY <2>2
      <3>2. text[2] = s[1] /\ text[3] = s[2]
        BY Zenon, <1>9, <3>1
      <3> QED
        BY <1>1, <2>2, <3>2 DEF ShowsCount
    <2> QED
      BY Zenon, <1>3, <2>1, <2>2
  <1>12. Compact(text, d, z, tail, n)
    BY Zenon, <1>3, <1>7, <1>8, <1>10, <1>11 DEF Compact
  <1> QED
    BY <1>12

LEMMA ReadCompact ==
  ASSUME NEW z \in 4 .. 40, NEW n, NEW tail, IsText(tail, n),
         NEW text, NEW d, Compact(text, d, z, tail, n)
  PROVE  Expanded(text) = [i \in 1 .. z |-> 0] \o tail
  <1> DEFINE from == IF 3 \in 2 .. 1 + d THEN 4 ELSE 3
  <1>1. /\ n \in Nat /\ d \in {1, 2} /\ 1 + d + n \in Nat
        /\ Len(text) = 1 + d + n /\ DOMAIN text = 1 .. 1 + d + n
        /\ Len(tail) = n /\ DOMAIN tail = 1 .. n
    BY TextParts DEF Compact, IsText
  <1>2. from = 2 + d /\ 2 .. 1 + d # {}
    <2>1. CASE d = 1
      BY <2>1
    <2>2. CASE d = 2
      BY <2>2
    <2> QED
      BY <1>1, <2>1, <2>2
  <1>3. ASSUME NEW i \in 1 .. 1 + d + n
        PROVE  text[i][1] = "subscript" <=> i \in 2 .. 1 + d
    <2>1. CASE i = 1
      BY <2>1 DEF Compact, Hex
    <2>2. CASE i \in 2 .. 1 + d
      <3>1. PICK j \in 1 .. d : 1 + j = i
        BY <1>1, <2>2
      <3>2. text[1 + j][1] = "subscript"
        BY DEF Compact
      <3> QED
        BY <2>2, <3>1, <3>2
    <2>3. CASE i > 1 + d
      <3>1. PICK j \in 1 .. n : 1 + d + j = i
        BY <1>1, <2>3
      <3>2. text[1 + d + j] = <<"hex", tail[j]>>
        BY DEF Compact, Hex
      <3>3. text[1 + d + j][1] # "subscript"
        BY <3>2
      <3>4. i \notin 2 .. 1 + d
        BY <1>1, <2>3
      <3> QED
        BY <3>1, <3>3, <3>4
    <2> QED
      BY <1>1, <2>1, <2>2, <2>3
  <1>4. {i \in DOMAIN text : text[i][1] = "subscript"} = 2 .. 1 + d
    <2>1. \A i \in 2 .. 1 + d : i \in 1 .. 1 + d + n
      BY <1>1
    <2> QED
      BY <1>1, <1>3, <2>1
  <1>5. (IF 3 \in 2 .. 1 + d THEN 10 * text[2][2] + text[3][2] ELSE text[2][2]) = z
    <2>1. 3 \in 2 .. 1 + d <=> d # 1
      BY <1>1
    <2> QED
      BY <2>1 DEF Compact
  <1>6. PICK rest : rest = SubSeq(text, from, Len(text))
    OBVIOUS
  <1>7. IsText(rest, n) /\ \A i \in 1 .. n : rest[i] = <<"hex", tail[i]>>
    <2>1. PICK f \in Nat, l \in Nat : f = from /\ l = Len(text) /\ l - f + 1 = n
      BY <1>1, <1>2
    <2>2. SubSeq(text, f, l) = [i \in 1 .. l - f + 1 |-> text[f + i - 1]]
      OBVIOUS
    <2>3. rest = [i \in 1 .. n |-> text[f + i - 1]]
      BY <1>6, <2>1, <2>2
    <2>4. ASSUME NEW i \in 1 .. n PROVE rest[i] = <<"hex", tail[i]>>
      <3>1. f + i - 1 = 1 + d + i
        BY <1>1, <1>2, <2>1
      <3>2. text[1 + d + i] = <<"hex", tail[i]>>
        BY DEF Compact, Hex
      <3> QED
        BY <2>3, <3>1, <3>2
    <2>5. IsText(rest, n)
      BY <1>1, <2>3 DEF IsText
    <2> QED
      BY <2>4, <2>5
  <1>8. [i \in DOMAIN rest |-> IF rest[i][1] = "hex" THEN rest[i][2] ELSE 0] = tail
    <2>1. DOMAIN rest = 1 .. n
      BY <1>7, TextParts
    <2>2. ASSUME NEW i \in 1 .. n
          PROVE  (IF rest[i][1] = "hex" THEN rest[i][2] ELSE 0) = tail[i]
      <3>1. PICK c : c = rest[i] /\ c = <<"hex", tail[i]>>
        BY <1>7
      <3>2. c[1] = "hex" /\ c[2] = tail[i]
        BY <3>1
      <3> QED
        BY <3>1, <3>2
    <2> QED
      BY <2>1, <2>2 DEF IsText
  <1> HIDE DEF from
  <1>9. Expanded(text) =
          [i \in 1 .. z |-> 0] \o
            [i \in DOMAIN rest |-> IF rest[i][1] = "hex" THEN rest[i][2] ELSE 0]
    BY Zenon, <1>2, <1>4, <1>5, <1>6 DEF Expanded, from
  <1> QED
    BY <1>8, <1>9

(* The count gives back the zeros, and the remainder follows it.           *)
LEMMA CompactOf ==
  ASSUME NEW a \in Seq(0 .. 15), Len(a) <= 40,
         NEW z \in 4 .. Len(a), \A i \in 1 .. z : a[i] = 0,
         NEW text,
         text = <<Hex(0)>> \o to_subscript(z) \o Digits(SubSeq(a, z + 1, Len(a)))
  PROVE  Expanded(text) = a
  <1>0. PICK len \in Nat : len = Len(a)
    OBVIOUS
  <1>1. PICK n \in Nat : z + n = len
    <2>1. z \in 4 .. len
      BY <1>0
    <2>2. len - z \in Nat /\ z + (len - z) = len
      BY <2>1
    <2> QED
      BY <2>2
  <1>2. PICK tail : tail = SubSeq(a, z + 1, Len(a))
    OBVIOUS
  <1>3. IsText(tail, n) /\ \A i \in 1 .. n : tail[i] = a[z + i]
    <2>1. PICK f \in Nat, l \in Nat : f = z + 1 /\ l = Len(a) /\ l - f + 1 = n
      <3>1. z \in Nat /\ len - (z + 1) + 1 = n
        BY <1>0, <1>1
      <3> QED
        BY <1>0, <3>1
    <2>2. SubSeq(a, f, l) = [i \in 1 .. l - f + 1 |-> a[f + i - 1]]
      OBVIOUS
    <2>3. tail = [i \in 1 .. n |-> a[f + i - 1]]
      BY <1>2, <2>1, <2>2
    <2>4. \A i \in 1 .. n : f + i - 1 = z + i
      BY <2>1
    <2> QED
      BY <2>3, <2>4 DEF IsText
  <1>4. z \in 4 .. 40 /\ z \in Nat /\ IsText(a, Len(a)) /\ z + n = Len(a)
    <2>1. z \in 4 .. len /\ len <= 40
      BY <1>0
    <2>2. IsText(a, Len(a))
      BY SequenceIsText
    <2> QED
      BY <1>0, <1>1, <2>1, <2>2
  <1>5. Expanded(text) = [i \in 1 .. z |-> 0] \o tail
    <2>1. PICK d : Compact(text, d, z, tail, n)
      BY <1>2, <1>3, <1>4, CompactIs
    <2> QED
      BY Zenon, <1>3, <1>4, <2>1, ReadCompact
  <1>6. PICK zero, whole : zero = [i \in 1 .. z |-> 0] /\ whole = zero \o tail
    OBVIOUS
  <1>7. IsText(zero, z) /\ \A i \in 1 .. z : zero[i] = 0
    BY <1>4, <1>6 DEF IsText
  <1>8. Joined(whole, zero, z, tail, n)
    BY <1>3, <1>6, <1>7, Concatenated
  <1>9. ASSUME NEW i \in 1 .. z + n PROVE whole[i] = a[i]
    <2>1. CASE i <= z
      BY <1>7, <1>8, <2>1 DEF Joined
    <2>2. CASE i > z
      <3>1. PICK j \in 1 .. n : z + j = i
        BY <1>4, <2>2
      <3>2. whole[z + j] = a[z + j]
        BY <1>3, <1>8 DEF Joined
      <3> QED
        BY <3>1, <3>2
    <2> QED
      BY <1>4, <2>1, <2>2
  <1>10. IsText(whole, z + n)
    BY <1>8 DEF Joined
  <1>11. whole = a
    BY <1>4, <1>9, <1>10, SameText
  <1> QED
    BY <1>5, <1>6, <1>11

(* An address reads back from its column, and is counted alike.            *)
LEMMA AlwaysLossless == Lossless
  <1> SUFFICES ASSUME NEW a \in Addresses
               PROVE  /\ Expanded(format_address(a, "Subscript", FALSE)) = a
                      /\ count_leading_zeros(a) = leading_zero_nibbles(a)
    BY DEF Lossless
  <1>1. a \in Seq(0 .. 15) /\ Len(a) <= 40 /\ Len(a) % 2 = 0
    BY KeyLogAssumption
  <1>2. PICK z \in 0 .. Len(a) : LeadingZeros(a, z)
    BY <1>1, ZerosLead
  <1>3. count_leading_zeros(a) = z /\ leading_zero_nibbles(a) = z
    BY <1>1, <1>2, CharactersCount, BytesCount
  <1>4. CASE z < 4
    <2>1. format_address(a, "Subscript", FALSE) = Digits(a)
      BY <1>3, <1>4 DEF format_address, LEADING_ZERO_THRESHOLD
    <2> QED
      BY <1>1, <1>3, <2>1, DigitsOf
  <1>5. CASE ~(z < 4)
    <2>1. format_address(a, "Subscript", FALSE) =
            <<Hex(0)>> \o to_subscript(z) \o Digits(SubSeq(a, z + 1, Len(a)))
      BY <1>3, <1>5 DEF format_address, LEADING_ZERO_THRESHOLD
    <2>2. z \in 4 .. Len(a) /\ \A i \in 1 .. z : a[i] = 0
      BY <1>1, <1>2, <1>5 DEF LeadingZeros
    <2> QED
      BY <1>1, <1>3, <2>1, <2>2, CompactOf
  <1> QED
    BY <1>4, <1>5

(* What decrypt prints beside a key is its whole address, and the count    *)
(* of that address' zeros, for addresses of any even length up to 40.      *)
THEOREM ColumnsAlwaysNameTheKey == Spec => []ColumnsNameTheKey
  <1>1. ASSUME IInv, NoFalseRecovery PROVE ColumnsNameTheKey
    <2> SUFFICES ASSUME NEW i \in Identity, NEW r \in Recovered(i)
                 PROVE  /\ Expanded(Head(r.address)[2]) = AddressOf[r.key]
                        /\ Head(r.zeros)[2] =
                             count_leading_zeros(Expanded(Head(r.address)[2]))
      BY AlwaysLossless DEF ColumnsNameTheKey
    <2>1. PICK k : k = r.key /\ k \in 1 .. found
      BY DEF Recovered, InLines
    <2>2. r.address = <<Address(k)>> /\ r.zeros = <<ZeroCount(k)>>
      BY <1>1, <2>1 DEF NoFalseRecovery
    <2>3. k \in DOMAIN AddressOf
      <3>1. found \in 0 .. MaxKeys
        BY <1>1 DEF IInv, TypeOK
      <3>2. DOMAIN AddressOf = 1 .. Len(AddressOf) /\ Len(AddressOf) \in Nat
        BY KeyLogAssumption
      <3>3. MaxKeys \in 0 .. Len(AddressOf)
        BY KeyLogAssumption
      <3> QED
        BY <2>1, <3>1, <3>2, <3>3
    <2>4. PICK a : a = AddressOf[k] /\ a \in Addresses
      BY <2>3, KeyLogAssumption
    <2>5. Head(r.address)[2] = format_address(a, "Subscript", FALSE)
      <3>1. Texts[k] = format_address(a, "Subscript", FALSE)
        BY <2>3, <2>4 DEF Texts
      <3>2. Head(r.address) = <<"address", Texts[k]>>
        BY <2>2 DEF Address
      <3>3. Head(r.address)[2] = Texts[k]
        BY <3>2
      <3> QED
        BY <3>1, <3>3
    <2>6. Head(r.zeros)[2] = leading_zero_nibbles(a)
      BY <2>2, <2>3, <2>4 DEF ZeroCount, Counts
    <2>7. /\ Expanded(format_address(a, "Subscript", FALSE)) = a
          /\ count_leading_zeros(a) = leading_zero_nibbles(a)
      BY <2>4, AlwaysLossless DEF Lossless
    <2> QED
      BY <2>1, <2>4, <2>5, <2>6, <2>7
  <1> QED
    BY <1>1, Invariance, NeverFalse, PTL

=============================================================================
