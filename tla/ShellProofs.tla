----------------------------- MODULE ShellProofs -----------------------------
(***************************************************************************)
(* Proofs about the shell, for lines of any length whose names fit in an   *)
(* entry of the table, an argv and a file table of any size: the pass of   *)
(* shell_execute stays within its copy, the arguments a command finds are  *)
(* the words of the line, and what the commands do with them is what       *)
(* Notebook says.                                                          *)
(*                                                                         *)
(* The argument: what the pass has not reached yet is as it was copied,    *)
(* and behind it the zeroes stand exactly over the spaces behind words     *)
(* (IInv).  The nth entry of argv is then the place where the nth word     *)
(* begins, counted; the loop over the arguments has joined the words       *)
(* before i, with a space behind them if there are more (TextPart, by      *)
(* induction over the words); and a file without a sector is as touch has  *)
(* made it (FilesPart).  With these every step is Notebook's or hidden.    *)
(***************************************************************************)
EXTENDS Shell, SequenceTheorems, FunctionTheorems, FiniteSetTheorems,
        WellFoundedInduction, TLAPS

Begins == Book!Begins(cmd)

(* at the space behind a word                                              *)
Behind(j) == 0 < j /\ j < Len(cmd) /\ cmd[j + 1] = Space /\ cmd[j] # Space

(* the letters from one index to before another                            *)
Clear(a, e) == \A k \in a + 1 .. e : cmd[k] # Space

IsEnd(a, e) ==
  /\ e \in a + 1 .. Len(cmd)
  /\ Clear(a, e)
  /\ e = Len(cmd) \/ cmd[e + 1] = Space

(***************************************************************************)
(* The invariant                                                           *)
(***************************************************************************)
Running == {"argument", "spaces", "word", "done", "text"}

CopyPart ==
  /\ cmd \in Seq(Character)
  /\ token \in 0 .. Len(cmd)
  /\ buffer \in [0 .. Len(cmd) -> Character \cup {Nul}]
  /\ \A j \in 0 .. Len(cmd) :
       buffer[j] = IF j = Len(cmd) \/ (j < token /\ Behind(j)) THEN Nul
                   ELSE cmd[j + 1]

StartPart ==
  /\ argv \in Seq(Nat)
  /\ \A n \in 1 .. argc : argv[n] + 1 \in Begins
  /\ \A n \in 1 .. argc : argv[n] < token \/ (pc = "word" /\ n = argc /\ argv[n] = token)
  /\ \A n, m \in 1 .. argc : n < m => argv[n] < argv[m]
  /\ argc <= MaxArgs

Known(b) == \E n \in 1 .. argc : argv[n] + 1 = b

SeenPart ==
  /\ \A b \in Begins : b <= token => Known(b)
  /\ pc \in {"argument", "spaces"} =>
       token = 0 \/ token = Len(cmd) \/ cmd[token] = Space
  /\ pc = "spaces" => argc < MaxArgs
  /\ pc = "word" =>
       /\ argc > 0 /\ Clear(argv[argc], token)
       /\ token + 1 \in Begins => Known(token + 1)
  /\ pc \in {"done", "text"} => token = Len(cmd) \/ argc = MaxArgs

EndPart ==
  \A n \in 1 .. argc :
    \/ pc = "word" /\ n = argc
    \/ \E e \in argv[n] + 1 .. token :
         IsEnd(argv[n], e) /\ (e = Len(cmd) \/ e < token)

IInv == /\ pc \in Running \cup {"prompt"}
        /\ pc \in Running => CopyPart /\ StartPart /\ SeenPart /\ EndPart

(* What the theorem says.                                                  *)
ArgumentsAreWords ==
  pc \in {"done", "text"} =>
    /\ \A n \in 1 .. argc : /\ argv[n] + 1 \in Begins
                            /\ Argument(n) = Book!WordAt(cmd, argv[n] + 1)
    /\ \A n, m \in 1 .. argc : n < m => argv[n] < argv[m]
    /\ \A b \in Begins :
         \/ \E n \in 1 .. argc : argv[n] + 1 = b
         \/ argc = MaxArgs /\ \A n \in 1 .. argc : argv[n] + 1 < b

StaysInCopy == pc \in Running => token \in DOMAIN buffer /\ buffer[Len(cmd)] = Nul
(***************************************************************************)
(* The steps                                                               *)
(***************************************************************************)
LEMMA LineShape ==
  ASSUME CopyPart
  PROVE  /\ Len(cmd) \in Nat
         /\ \A k \in 1 .. Len(cmd) : cmd[k] \in Character /\ cmd[k] # Nul
         /\ Space # Nul
<1>1. Len(cmd) \in Nat /\ \A k \in 1 .. Len(cmd) : cmd[k] \in Character
  BY LenProperties, ElementOfSeq DEF CopyPart
<1> QED
  BY <1>1, CommandLineAssumption

LEMMA BeginsAre ==
  \A b : b \in Begins <=> /\ b \in 1 .. Len(cmd)
                          /\ cmd[b] # Space
                          /\ b = 1 \/ cmd[b - 1] = Space
BY DEF Begins, Book!Begins

(* What the byte under the token says of the line.                         *)
LEMMA UnderToken ==
  ASSUME CopyPart
  PROVE  /\ buffer[token] = Nul <=> token = Len(cmd)
         /\ token < Len(cmd) => buffer[token] = cmd[token + 1]
<1>1. /\ Len(cmd) \in Nat /\ token \in 0 .. Len(cmd)
      /\ \A k \in 1 .. Len(cmd) : cmd[k] # Nul
  BY LineShape DEF CopyPart
<1>2. buffer[token] = IF token = Len(cmd) THEN Nul ELSE cmd[token + 1]
  BY <1>1 DEF CopyPart
<1>3. token < Len(cmd) => token + 1 \in 1 .. Len(cmd)
  BY <1>1
<1> QED
  BY <1>1, <1>2, <1>3

LEMMA StartOfLine ==
  ASSUME NEW l \in Line, StartLine(l)
  PROVE  IInv'
<1>1. /\ cmd' = l /\ token' = 0 /\ argv' = <<>> /\ pc' = "argument"
      /\ buffer' = [j \in 0 .. Len(l) |-> IF j = Len(l) THEN Nul ELSE l[j + 1]]
  BY DEF StartLine
<1>2. /\ l \in Seq(Character) /\ Len(l) \in Nat
      /\ \A k \in 1 .. Len(l) : l[k] \in Character
  BY CommandLineAssumption, LenProperties, ElementOfSeq
<1>3. \A j \in 0 .. Len(l) : j # Len(l) => j + 1 \in 1 .. Len(l)
  BY <1>2
<1>4. CopyPart'
  <2>1. buffer' \in [0 .. Len(l) -> Character \cup {Nul}]
    BY <1>1, <1>2, <1>3
  <2>2. \A j \in 0 .. Len(l) : buffer'[j] = IF j = Len(l) THEN Nul ELSE l[j + 1]
    BY <1>1
  <2>3. \A j \in 0 .. Len(l) : ~ (j < token')
    BY <1>1, <1>2
  <2> QED
    BY <1>1, <1>2, <2>1, <2>2, <2>3 DEF CopyPart
<1>5. argc' = 0 /\ argv' \in Seq(Nat)
  BY <1>1 DEF argc
<1>6. \A n \in 1 .. 0 : FALSE
  OBVIOUS
<1>7. StartPart'
  BY <1>5, <1>6, CommandLineAssumption DEF StartPart
<1>8. SeenPart'
  <2>1. \A b \in Begins' : b \in Nat /\ b > 0
    BY <1>1, <1>2 DEF Begins, Book!Begins
  <2> QED
    BY <1>1, <2>1 DEF SeenPart
<1>9. EndPart'
  BY <1>5, <1>6 DEF EndPart
<1> QED
  BY <1>1, <1>4, <1>7, <1>8, <1>9 DEF IInv, Running

(* The steps that only move on, the copy and the arguments left alone.     *)
LEMMA CopyStays ==
  ASSUME CopyPart, UNCHANGED <<cmd, buffer>>,
         token' = token \/ (token' = token + 1 /\ token < Len(cmd) /\ ~ Behind(token))
  PROVE  CopyPart'
<1>1. Len(cmd) \in Nat /\ token \in 0 .. Len(cmd)
  BY LineShape DEF CopyPart
<1>2. token' \in 0 .. Len(cmd)
  BY <1>1
<1>3. \A j \in 0 .. Len(cmd) : Behind(j)' <=> Behind(j)
  BY DEF Behind
<1>4. \A j \in 0 .. Len(cmd) : (j < token' /\ Behind(j)) <=> (j < token /\ Behind(j))
  BY <1>1
<1> QED
  BY <1>2, <1>3, <1>4 DEF CopyPart

LEMMA NextArgumentKeeps ==
  ASSUME IInv, NextArgument
  PROVE  IInv'
<1>1. /\ pc = "argument" /\ CopyPart /\ StartPart /\ SeenPart /\ EndPart
      /\ UNCHANGED <<cmd, buffer, token, argv>>
      /\ pc' = IF buffer[token] # Nul /\ argc < MaxArgs THEN "spaces" ELSE "done"
  BY DEF IInv, Running, NextArgument
<1>2. argc' = argc /\ Begins' = Begins /\ argc \in Nat
  BY <1>1, LenProperties DEF argc, Begins, Book!Begins, StartPart
<1>3. CopyPart'
  BY <1>1, CopyStays
<1>4. StartPart'
  BY <1>1, <1>2 DEF StartPart
<1>5. pc' = "spaces" => argc < MaxArgs
  BY <1>1
<1>6. pc' = "done" => token = Len(cmd) \/ argc = MaxArgs
  BY <1>1, <1>2, UnderToken, CommandLineAssumption DEF StartPart
<1>7. SeenPart'
  BY <1>1, <1>2, <1>5, <1>6 DEF SeenPart, Known
<1>8. EndPart'
  BY <1>1, <1>2 DEF EndPart, IsEnd, Clear
<1> QED
  BY <1>1, <1>3, <1>4, <1>7, <1>8 DEF IInv, Running

LEMMA SkipSpaceKeeps ==
  ASSUME IInv, SkipSpace
  PROVE  IInv'
<1>1. /\ pc = "spaces" /\ CopyPart /\ StartPart /\ SeenPart /\ EndPart
      /\ buffer[token] = Space /\ token' = token + 1
      /\ UNCHANGED <<cmd, buffer, argv, pc>>
  BY DEF IInv, Running, SkipSpace
<1>2. argc' = argc /\ Begins' = Begins /\ argc \in Nat
  BY <1>1, LenProperties DEF argc, Begins, Book!Begins, StartPart
<1>3. /\ token \in Nat /\ token < Len(cmd) /\ Len(cmd) \in Nat
      /\ cmd[token + 1] = Space
      /\ token = 0 \/ cmd[token] = Space
  BY <1>1, LineShape, UnderToken DEF CopyPart, SeenPart
<1>4. CopyPart'
  BY <1>1, <1>3, CopyStays DEF Behind
<1>5. \A n \in 1 .. argc : argv[n] \in Nat /\ argv[n] < token
  BY <1>1, <1>2, ElementOfSeq DEF StartPart, argc
<1>6. StartPart'
  BY <1>1, <1>2, <1>3, <1>5 DEF StartPart
<1>7. SeenPart'
  <2>1. \A b \in Begins : b \in Nat /\ b # token + 1
    BY <1>3, BeginsAre
  <2>2. \A b \in Begins : b <= token' => b <= token
    BY <1>1, <1>3, <2>1
  <2> QED
    BY <1>1, <1>2, <1>3, <2>2 DEF SeenPart, Known
<1>8. EndPart'
  <2> SUFFICES ASSUME NEW n \in 1 .. argc
               PROVE  \E e \in argv[n] + 1 .. token + 1 :
                        IsEnd(argv[n], e) /\ (e = Len(cmd) \/ e < token + 1)
    BY <1>1, <1>2 DEF EndPart, IsEnd, Clear
  <2>1. PICK e \in argv[n] + 1 .. token :
          IsEnd(argv[n], e) /\ (e = Len(cmd) \/ e < token)
    BY <1>1 DEF EndPart
  <2> QED
    BY <1>3, <1>5, <2>1
<1> QED
  BY <1>1, <1>4, <1>6, <1>7, <1>8 DEF IInv, Running

LEMMA StartArgumentKeeps ==
  ASSUME IInv, StartArgument
  PROVE  IInv'
<1>1. /\ pc = "spaces" /\ CopyPart /\ StartPart /\ SeenPart /\ EndPart
      /\ buffer[token] # Space
      /\ UNCHANGED <<cmd, buffer, token>>
      /\ IF buffer[token] = Nul
         THEN pc' = "done" /\ UNCHANGED argv
         ELSE pc' = "word" /\ argv' = Append(argv, token)
  BY DEF IInv, Running, StartArgument
<1>2. Begins' = Begins /\ argc \in Nat /\ argc < MaxArgs /\ MaxArgs \in Nat
  BY <1>1, LenProperties, CommandLineAssumption
     DEF argc, Begins, Book!Begins, StartPart, SeenPart
<1>3. CopyPart'
  BY <1>1, CopyStays
<1>4. token \in Nat /\ Len(cmd) \in Nat /\ token <= Len(cmd)
  BY <1>1, LineShape DEF CopyPart
<1>5. \A n \in 1 .. argc : argv[n] \in Nat /\ argv[n] < token
  BY <1>1, <1>2, ElementOfSeq DEF StartPart, argc
<1>6. CASE buffer[token] = Nul
  <2>1. pc' = "done" /\ argv' = argv /\ argc' = argc /\ token = Len(cmd)
    BY <1>1, <1>6, UnderToken DEF argc
  <2>2. StartPart'
    BY <1>1, <1>2, <2>1, <1>5 DEF StartPart
  <2>3. SeenPart'
    BY <1>1, <1>2, <2>1 DEF SeenPart, Known
  <2>4. EndPart'
    BY <1>1, <1>2, <2>1 DEF EndPart, IsEnd, Clear
  <2> QED
    BY <1>3, <2>1, <2>2, <2>3, <2>4 DEF IInv, Running
<1>7. CASE buffer[token] # Nul
  <2>1. pc' = "word" /\ argv' = Append(argv, token)
    BY <1>1, <1>7
  <2>2. token < Len(cmd) /\ cmd[token + 1] # Space /\ (token = 0 \/ cmd[token] = Space)
    BY <1>1, <1>4, <1>7, UnderToken DEF SeenPart
  <2>3. token + 1 \in Begins
    BY <1>4, <2>2, BeginsAre
  <2>4. /\ argv' \in Seq(Nat) /\ argc' = argc + 1
        /\ argv'[argc + 1] = token
        /\ \A n \in 1 .. argc : argv'[n] = argv[n]
    BY <1>1, <1>4, <2>1, AppendProperties DEF argc, StartPart
  <2>5. \A n \in 1 .. argc + 1 : n \in 1 .. argc \/ n = argc + 1
    BY <1>2
  <2>6. StartPart'
    <3>1. \A n \in 1 .. argc' : argv'[n] + 1 \in Begins'
      BY <1>1, <1>2, <2>3, <2>4, <2>5 DEF StartPart
    <3>2. \A n \in 1 .. argc' : argv'[n] < token'
                               \/ (pc' = "word" /\ n = argc' /\ argv'[n] = token')
      BY <1>1, <1>5, <2>1, <2>4, <2>5
    <3>3. \A n, m \in 1 .. argc' : n < m => argv'[n] < argv'[m]
      <4> SUFFICES ASSUME NEW n \in 1 .. argc + 1, NEW m \in 1 .. argc + 1, n < m
                   PROVE  argv'[n] < argv'[m]
        BY <2>4
      <4>1. n \in 1 .. argc
        BY <1>2
      <4>2. CASE m = argc + 1
        BY <1>5, <2>4, <4>1, <4>2
      <4>3. CASE m \in 1 .. argc
        BY <1>1, <2>4, <4>1, <4>3 DEF StartPart
      <4> QED
        BY <2>5, <4>2, <4>3
    <3>4. argc' <= MaxArgs
      BY <1>2, <2>4
    <3> QED
      BY <2>4, <3>1, <3>2, <3>3, <3>4 DEF StartPart
  <2>7. SeenPart'
    <3>1. \A b : Known(b) => Known(b)'
      BY <1>2, <2>4 DEF Known
    <3>2. Known(token + 1)'
      <4>1. token' = token /\ argc + 1 \in 1 .. argc + 1
        BY <1>1, <1>2
      <4> QED
        BY <2>4, <4>1 DEF Known
    <3>3. \A b \in Begins : b <= token => Known(b)'
      BY <1>1, <3>1 DEF SeenPart
    <3>4. Clear(argv[argc], token)' /\ argc' > 0
      <4>1. argv'[argc'] = token' /\ \A k \in token + 1 .. token : FALSE
        BY <1>1, <1>4, <2>4
      <4> QED
        BY <1>1, <1>2, <2>4, <4>1 DEF Clear
    <3> QED
      BY <1>1, <1>2, <2>1, <3>2, <3>3, <3>4 DEF SeenPart
  <2>8. EndPart'
    <3> SUFFICES ASSUME NEW n \in 1 .. argc
                 PROVE  \E e \in argv[n] + 1 .. token :
                          IsEnd(argv[n], e) /\ (e = Len(cmd) \/ e < token)
      BY <1>1, <2>1, <2>4, <2>5 DEF EndPart, IsEnd, Clear
    <3> QED
      BY <1>1 DEF EndPart
  <2> QED
    BY <1>3, <2>1, <2>6, <2>7, <2>8 DEF IInv, Running
<1> QED
  BY <1>6, <1>7

LEMMA SkipLetterKeeps ==
  ASSUME IInv, SkipLetter
  PROVE  IInv'
<1>1. /\ pc = "word" /\ CopyPart /\ StartPart /\ SeenPart /\ EndPart
      /\ buffer[token] \notin {Nul, Space} /\ token' = token + 1
      /\ UNCHANGED <<cmd, buffer, argv, pc>>
  BY DEF IInv, Running, SkipLetter
<1>2. argc' = argc /\ Begins' = Begins /\ argc \in Nat /\ argc > 0
  BY <1>1, LenProperties DEF argc, Begins, Book!Begins, StartPart, SeenPart
<1>3. /\ token \in Nat /\ token < Len(cmd) /\ Len(cmd) \in Nat
      /\ cmd[token + 1] # Space
  BY <1>1, LineShape, UnderToken DEF CopyPart
<1>4. CopyPart'
  BY <1>1, <1>3, CopyStays DEF Behind
<1>5. \A n \in 1 .. argc : argv[n] \in Nat /\ argv[n] <= token
  BY <1>1, <1>2, <1>3, ElementOfSeq DEF StartPart, argc
<1>6. StartPart'
  <2>1. \A n \in 1 .. argc : argv[n] < token + 1
    BY <1>3, <1>5
  <2> QED
    BY <1>1, <1>2, <2>1 DEF StartPart
<1>7. SeenPart'
  <2>1. Clear(argv[argc], token + 1)
    <3>1. Clear(argv[argc], token) /\ argc \in 1 .. argc
      BY <1>1, <1>2 DEF SeenPart
    <3>2. \A k \in argv[argc] + 1 .. token + 1 :
            k \in argv[argc] + 1 .. token \/ k = token + 1
      BY <1>3, <1>5, <3>1
    <3> QED
      BY <1>3, <3>1, <3>2 DEF Clear
  <2>2. \A b \in Begins : b \in Nat /\ b # token + 2
    BY <1>3, BeginsAre
  <2>3. \A b \in Begins : b <= token + 1 => Known(b)
    <3>1. \A b \in Begins : b <= token + 1 => b <= token \/ b = token + 1
      BY <1>3, <2>2
    <3> QED
      BY <1>1, <3>1 DEF SeenPart
  <2> QED
    BY <1>1, <1>2, <1>3, <2>1, <2>2, <2>3 DEF SeenPart, Known, Clear
<1>8. EndPart'
  <2> SUFFICES ASSUME NEW n \in 1 .. argc, n # argc
               PROVE  \E e \in argv[n] + 1 .. token + 1 :
                        IsEnd(argv[n], e) /\ (e = Len(cmd) \/ e < token + 1)
    BY <1>1, <1>2 DEF EndPart, IsEnd, Clear
  <2>1. PICK e \in argv[n] + 1 .. token :
          IsEnd(argv[n], e) /\ (e = Len(cmd) \/ e < token)
    BY <1>1 DEF EndPart
  <2> QED
    BY <1>3, <1>5, <2>1
<1> QED
  BY <1>1, <1>4, <1>6, <1>7, <1>8 DEF IInv, Running

(* At the end of the last argument: it ends where the token is.            *)
LEMMA LastEnds ==
  ASSUME CopyPart, StartPart, SeenPart, EndPart, pc = "word",
         token = Len(cmd) \/ cmd[token + 1] = Space
  PROVE  /\ argc \in 1 .. argc
         /\ argv[argc] < token /\ IsEnd(argv[argc], token)
         /\ token > 0 /\ cmd[token] # Space
         /\ \A n \in 1 .. argc : argv[n] \in Nat /\ argv[n] < token
<1>1. /\ argc \in Nat /\ argc > 0 /\ Clear(argv[argc], token)
      /\ token \in Nat /\ Len(cmd) \in Nat /\ token <= Len(cmd)
  BY LineShape, LenProperties DEF CopyPart, StartPart, SeenPart, argc
<1>2. \A n \in 1 .. argc : /\ argv[n] \in Nat /\ argv[n] <= token
                           /\ argv[n] < Len(cmd) /\ cmd[argv[n] + 1] # Space
  BY <1>1, BeginsAre, ElementOfSeq DEF StartPart, argc
<1>3. argc \in 1 .. argc
  BY <1>1
<1>4. \A n \in 1 .. argc : argv[n] < token
  BY <1>1, <1>2
<1>5. token \in argv[argc] + 1 .. token /\ token \in argv[argc] + 1 .. Len(cmd)
  BY <1>1, <1>2, <1>3, <1>4
<1> QED
  BY <1>1, <1>2, <1>3, <1>4, <1>5 DEF IsEnd, Clear

LEMMA EndArgumentKeeps ==
  ASSUME IInv, EndArgument
  PROVE  IInv'
<1>1. /\ pc = "word" /\ CopyPart /\ StartPart /\ SeenPart /\ EndPart
      /\ buffer[token] = Space /\ token' = token + 1 /\ pc' = "argument"
      /\ buffer' = [buffer EXCEPT ![token] = Nul]
      /\ UNCHANGED <<cmd, argv>>
  BY DEF IInv, Running, EndArgument
<1>2. argc' = argc /\ Begins' = Begins /\ argc \in Nat
  BY <1>1, LenProperties DEF argc, Begins, Book!Begins, StartPart
<1>3. /\ token \in Nat /\ token < Len(cmd) /\ Len(cmd) \in Nat
      /\ cmd[token + 1] = Space
  BY <1>1, LineShape, UnderToken DEF CopyPart
<1>4. /\ argc \in 1 .. argc
      /\ argv[argc] < token /\ IsEnd(argv[argc], token)
      /\ token > 0 /\ cmd[token] # Space
      /\ \A n \in 1 .. argc : argv[n] \in Nat /\ argv[n] < token
  BY <1>1, <1>3, LastEnds
<1>5. CopyPart'
  <2>1. \A j \in 0 .. Len(cmd) : Behind(j)' <=> Behind(j)
    BY <1>1 DEF Behind
  <2>2. Behind(token)
    BY <1>3, <1>4 DEF Behind
  <2>3. /\ buffer \in [0 .. Len(cmd) -> Character \cup {Nul}]
        /\ \A j \in 0 .. Len(cmd) :
             buffer[j] = IF j = Len(cmd) \/ (j < token /\ Behind(j)) THEN Nul
                         ELSE cmd[j + 1]
        /\ cmd \in Seq(Character)
    BY <1>1 DEF CopyPart
  <2>4. /\ buffer' \in [0 .. Len(cmd) -> Character \cup {Nul}]
        /\ \A j \in 0 .. Len(cmd) :
             buffer'[j] = IF j = token THEN Nul ELSE buffer[j]
    BY <1>1, <1>3, <2>3
  <2>5. \A j \in 0 .. Len(cmd) :
          buffer'[j] = IF j = Len(cmd) \/ (j < token + 1 /\ Behind(j)) THEN Nul
                       ELSE cmd[j + 1]
    <3>1. \A j \in 0 .. Len(cmd) : j < token + 1 <=> j < token \/ j = token
      BY <1>3
    <3> QED
      BY <2>2, <2>3, <2>4, <3>1
  <2>6. token + 1 \in 0 .. Len(cmd)
    BY <1>3
  <2> QED
    BY <1>1, <2>1, <2>3, <2>4, <2>5, <2>6 DEF CopyPart
<1>6. StartPart'
  <2>1. \A n \in 1 .. argc : argv[n] < token + 1
    BY <1>3, <1>4
  <2> QED
    BY <1>1, <1>2, <2>1 DEF StartPart
<1>7. SeenPart'
  <2>1. \A b \in Begins : b \in Nat /\ b # token + 1
    BY <1>3, BeginsAre
  <2>2. \A b \in Begins : b <= token + 1 => b <= token
    BY <1>3, <2>1
  <2> QED
    BY <1>1, <1>2, <1>3, <2>2 DEF SeenPart, Known
<1>8. EndPart'
  <2> SUFFICES ASSUME NEW n \in 1 .. argc
               PROVE  \E e \in argv[n] + 1 .. token + 1 :
                        IsEnd(argv[n], e) /\ (e = Len(cmd) \/ e < token + 1)
    BY <1>1, <1>2 DEF EndPart, IsEnd, Clear
  <2>1. CASE n = argc
    BY <1>3, <1>4, <2>1
  <2>2. CASE n # argc
    <3>1. PICK e \in argv[n] + 1 .. token :
            IsEnd(argv[n], e) /\ (e = Len(cmd) \/ e < token)
      BY <1>1, <2>2 DEF EndPart
    <3> QED
      BY <1>3, <1>4, <3>1
  <2> QED
    BY <2>1, <2>2
<1> QED
  BY <1>1, <1>5, <1>6, <1>7, <1>8 DEF IInv, Running

LEMMA EndLineKeeps ==
  ASSUME IInv, EndLine
  PROVE  IInv'
<1>1. /\ pc = "word" /\ CopyPart /\ StartPart /\ SeenPart /\ EndPart
      /\ buffer[token] = Nul /\ pc' = "done"
      /\ UNCHANGED <<cmd, buffer, token, argv>>
  BY DEF IInv, Running, EndLine
<1>2. argc' = argc /\ Begins' = Begins /\ argc \in Nat
  BY <1>1, LenProperties DEF argc, Begins, Book!Begins, StartPart
<1>3. token = Len(cmd)
  BY <1>1, UnderToken
<1>4. /\ argc \in 1 .. argc
      /\ argv[argc] < token /\ IsEnd(argv[argc], token)
      /\ \A n \in 1 .. argc : argv[n] \in Nat /\ argv[n] < token
  BY <1>1, <1>3, LastEnds
<1>5. CopyPart'
  BY <1>1, CopyStays
<1>6. StartPart'
  BY <1>1, <1>2, <1>4 DEF StartPart
<1>7. SeenPart'
  BY <1>1, <1>2, <1>3 DEF SeenPart, Known
<1>8. EndPart'
  <2> SUFFICES ASSUME NEW n \in 1 .. argc
               PROVE  \E e \in argv[n] + 1 .. token :
                        IsEnd(argv[n], e) /\ (e = Len(cmd) \/ e < token)
    BY <1>1, <1>2 DEF EndPart, IsEnd, Clear
  <2>1. CASE n = argc
    BY <1>3, <1>4, <2>1 DEF IsEnd
  <2>2. CASE n # argc
    BY <1>1, <2>2 DEF EndPart
  <2> QED
    BY <2>1, <2>2
<1> QED
  BY <1>1, <1>5, <1>6, <1>7, <1>8 DEF IInv, Running

(* What the commands do leaves the arguments alone until the prompt.       *)
LEMMA CommandKeeps ==
  ASSUME IInv, pc \in {"done", "text"}, pc' \in {"done", "text"},
         UNCHANGED <<cmd, buffer, token, argv>>
  PROVE  IInv'
<1>1. CopyPart /\ StartPart /\ SeenPart /\ EndPart
  BY DEF IInv, Running
<1>2. argc' = argc /\ Begins' = Begins
  BY DEF argc, Begins, Book!Begins
<1>3. CopyPart'
  BY <1>1, CopyStays
<1>4. StartPart'
  BY <1>1, <1>2 DEF StartPart
<1>5. SeenPart'
  BY <1>1, <1>2 DEF SeenPart, Known
<1>6. EndPart'
  BY <1>1, <1>2 DEF EndPart, IsEnd, Clear
<1> QED
  BY <1>3, <1>4, <1>5, <1>6 DEF IInv, Running

LEMMA StandStill == ASSUME IInv, UNCHANGED vars PROVE IInv'
<1>1. UNCHANGED <<cmd, buffer, token, argv, pc>>
  BY DEF vars, line_vars
<1>2. argc' = argc /\ Begins' = Begins
  BY <1>1 DEF argc, Begins, Book!Begins
<1>3. CopyPart => CopyPart'
  BY <1>1, CopyStays
<1> QED
  BY <1>1, <1>2, <1>3 DEF IInv, Running, StartPart, SeenPart, EndPart, IsEnd,
     Clear, Known

LEMMA PromptKeeps == ASSUME pc' = "prompt" PROVE IInv'
  BY DEF IInv, Running

LEMMA StepKeeps == IInv /\ [Next]_vars => IInv'
<1> SUFFICES ASSUME IInv, [Next]_vars PROVE IInv'
  OBVIOUS
<1>1. CASE \E l \in Line : Enter(l)
  BY <1>1, StartOfLine DEF Enter
<1>2. CASE CutLine
  BY <1>2, NextArgumentKeeps, SkipSpaceKeeps, StartArgumentKeeps,
     SkipLetterKeeps, EndArgumentKeeps, EndLineKeeps DEF CutLine
<1>3. CASE AddArgument \/ StartText("echo", 2, 1) \/ StartText("write", 3, 3)
  <2>1. /\ pc \in {"done", "text"} /\ pc' \in {"done", "text"}
        /\ UNCHANGED <<cmd, buffer, token, argv>>
    BY <1>3 DEF AddArgument, StartText, Runs, line_vars
  <2> QED
    BY <2>1, CommandKeeps
<1>4. CASE \/ NoCommand \/ UnknownCommand
           \/ Usage("touch", 2) \/ Usage("rm", 2) \/ Usage("cat", 2)
           \/ Usage("write", 3)
           \/ cmd_touch \/ cmd_rm \/ cmd_cat \/ cmd_mkfs \/ OtherCommand
           \/ cmd_echo \/ cmd_write
  <2>1. pc' = "prompt"
    BY <1>4 DEF NoCommand, UnknownCommand, Usage, cmd_touch, cmd_rm, cmd_cat,
       cmd_mkfs, OtherCommand, cmd_echo, cmd_write, Prompt
  <2> QED
    BY <2>1, PromptKeeps
<1>5. CASE UNCHANGED vars
  BY <1>5, StandStill
<1> QED
  BY <1>1, <1>2, <1>3, <1>4, <1>5 DEF Next, Execute

LEMMA Invariance == Spec => []IInv
<1>1. Init => IInv
  BY DEF Init, IInv, Running
<1> QED
  BY <1>1, StepKeeps, PTL DEF Spec

(***************************************************************************)
(* The arguments                                                           *)
(***************************************************************************)
LEMMA OneEnd ==
  ASSUME NEW a \in Nat, Len(cmd) \in Nat, NEW e, NEW f, IsEnd(a, e), IsEnd(a, f)
  PROVE  e = f
<1>1. e \in a + 1 .. Len(cmd) /\ f \in a + 1 .. Len(cmd)
  BY DEF IsEnd
<1>2. CASE e < f
  <2>1. e + 1 \in a + 1 .. f /\ e # Len(cmd)
    BY <1>1, <1>2
  <2> QED
    BY <2>1 DEF IsEnd, Clear
<1>3. CASE f < e
  <2>1. f + 1 \in a + 1 .. e /\ f # Len(cmd)
    BY <1>1, <1>3
  <2> QED
    BY <2>1 DEF IsEnd, Clear
<1> QED
  BY <1>1, <1>2, <1>3

(* Where a word ends is where the first zero behind its start is.          *)
LEMMA ZeroAtEnd ==
  ASSUME CopyPart, NEW a \in Nat, NEW e, IsEnd(a, e), e = Len(cmd) \/ e < token
  PROVE  /\ e \in a .. Len(cmd)
         /\ buffer[e] = Nul
         /\ \A k \in a .. e - 1 : buffer[k] = cmd[k + 1] /\ buffer[k] # Nul
<1>1. /\ Len(cmd) \in Nat /\ token \in 0 .. Len(cmd)
      /\ \A k \in 1 .. Len(cmd) : cmd[k] # Nul
      /\ e \in a + 1 .. Len(cmd)
  BY LineShape DEF CopyPart, IsEnd
<1>2. buffer[e] = Nul
  <2>1. cmd[e] # Space /\ e \in 0 .. Len(cmd)
    BY <1>1 DEF IsEnd, Clear
  <2>2. e < token => Behind(e)
    BY <1>1, <2>1 DEF Behind, IsEnd
  <2> QED
    BY <2>1, <2>2 DEF CopyPart
<1>3. ASSUME NEW k \in a .. e - 1
      PROVE  buffer[k] = cmd[k + 1] /\ buffer[k] # Nul
  <2>1. /\ k \in 0 .. Len(cmd) /\ k # Len(cmd)
        /\ k + 1 \in 1 .. Len(cmd) /\ k + 1 \in a + 1 .. e
    BY <1>1
  <2>2. ~ Behind(k)
    BY <2>1 DEF Behind, IsEnd, Clear
  <2> QED
    BY <1>1, <2>1, <2>2 DEF CopyPart
<1> QED
  BY <1>1, <1>2, <1>3

LEMMA ArgumentIsWord ==
  ASSUME CopyPart, NEW n, argv[n] \in Nat, NEW e, IsEnd(argv[n], e),
         e = Len(cmd) \/ e < token
  PROVE  /\ Argument(n) = Book!WordAt(cmd, argv[n] + 1)
         /\ Argument(n) \in Seq(Character)
<1> DEFINE a == argv[n]
           Ends(j) == buffer[j] = Nul /\ \A k \in a .. j - 1 : buffer[k] # Nul
           word == SubSeq(cmd, a + 1, e)
           string == [k \in 1 .. e - a |-> buffer[a + k - 1]]
<1>1. /\ Len(cmd) \in Nat /\ cmd \in Seq(Character) /\ a \in Nat
      /\ e \in a + 1 .. Len(cmd)
      /\ \A k \in 1 .. Len(cmd) : cmd[k] \in Character
  BY LineShape DEF CopyPart, IsEnd
<1> HIDE DEF a
<1>2. /\ e \in a .. Len(cmd) /\ Ends(e)
      /\ \A k \in a .. e - 1 : buffer[k] = cmd[k + 1]
  BY <1>1, ZeroAtEnd DEF a
<1>3. ASSUME NEW j \in a .. Len(cmd), Ends(j)
      PROVE  j = e
  <2>1. CASE j < e
    BY <1>1, <1>2, <1>3, <2>1
  <2>2. CASE j > e
    <3>1. e \in a .. j - 1
      BY <1>1, <1>2, <2>2
    <3> QED
      BY <1>2, <1>3, <3>1
  <2> QED
    BY <1>1, <2>1, <2>2
<1>4. (CHOOSE j \in a .. Len(cmd) : Ends(j)) = e
  <2> HIDE DEF Ends
  <2> QED
    BY <1>2, <1>3
<1>5. Argument(n) = string
  BY <1>4 DEF Argument, Ends, string, a
<1>6. Book!WordAt(cmd, a + 1) = word
  <2>1. IsEnd(a, e) /\ \A j : IsEnd(a, j) => j = e
    BY <1>1, OneEnd DEF a
  <2>2. (CHOOSE j \in a + 1 .. Len(cmd) :
            /\ \A k \in a + 1 .. j : cmd[k] # Space
            /\ j = Len(cmd) \/ cmd[j + 1] = Space) = e
    BY <2>1 DEF IsEnd, Clear
  <2> QED
    BY <2>2 DEF Book!WordAt, word
<1>7. /\ word \in Seq(Character) /\ Len(word) = e - a
      /\ \A k \in 1 .. e - a : word[k] = cmd[a + k]
  <2>1. \A k \in a + 1 .. e : cmd[k] \in Character
    BY <1>1
  <2>2. /\ word \in Seq(Character)
        /\ Len(word) = IF a + 1 <= e THEN e - (a + 1) + 1 ELSE 0
        /\ \A k \in 1 .. e - (a + 1) + 1 : word[k] = cmd[a + 1 + k - 1]
    BY <1>1, <2>1, SubSeqProperties
  <2> HIDE DEF word
  <2> QED
    BY <1>1, <2>2
<1>8. \A k \in 1 .. e - a : string[k] = cmd[a + k] /\ cmd[a + k] \in Character
  <2> SUFFICES ASSUME NEW k \in 1 .. e - a
               PROVE  buffer[a + k - 1] = cmd[a + k] /\ cmd[a + k] \in Character
    OBVIOUS
  <2>1. a + k - 1 \in a .. e - 1 /\ a + k - 1 + 1 = a + k /\ a + k \in 1 .. Len(cmd)
    BY <1>1
  <2> QED
    BY <1>1, <1>2, <2>1
<1>9. string \in Seq(Character) /\ Len(string) = e - a
  <2>1. \A k \in 1 .. e - a : buffer[a + k - 1] \in Character
    BY <1>8
  <2>2. string \in [1 .. e - a -> Character]
    BY <2>1
  <2>3. e - a \in Nat
    BY <1>1
  <2> HIDE DEF string
  <2> QED
    BY <2>2, <2>3, LenProperties
<1>10. string = word
  <2> HIDE DEF string, word
  <2> QED
    BY <1>7, <1>8, <1>9, SeqEqual
<1> QED
  BY <1>5, <1>6, <1>7, <1>10 DEF a

LEMMA InvariantSays == IInv => ArgumentsAreWords
<1> SUFFICES ASSUME IInv, pc \in {"done", "text"}
             PROVE  /\ \A n \in 1 .. argc :
                         /\ argv[n] + 1 \in Begins
                         /\ Argument(n) = Book!WordAt(cmd, argv[n] + 1)
                    /\ \A n, m \in 1 .. argc : n < m => argv[n] < argv[m]
                    /\ \A b \in Begins :
                         \/ \E n \in 1 .. argc : argv[n] + 1 = b
                         \/ /\ argc = MaxArgs
                            /\ \A n \in 1 .. argc : argv[n] + 1 < b
  BY DEF ArgumentsAreWords
<1>1. CopyPart /\ StartPart /\ SeenPart /\ EndPart
  BY DEF IInv, Running
<1>2. /\ argc \in Nat /\ token \in Nat
      /\ \A n \in 1 .. argc : argv[n] \in Nat /\ argv[n] < token
  BY <1>1, LineShape, LenProperties, ElementOfSeq DEF CopyPart, StartPart, argc
<1>3. ASSUME NEW n \in 1 .. argc
      PROVE  Argument(n) = Book!WordAt(cmd, argv[n] + 1)
  <2>1. PICK e \in argv[n] + 1 .. token :
          IsEnd(argv[n], e) /\ (e = Len(cmd) \/ e < token)
    BY <1>1 DEF EndPart
  <2> QED
    BY <1>1, <1>2, <2>1, ArgumentIsWord
<1>4. ASSUME NEW b \in Begins
      PROVE  \/ \E n \in 1 .. argc : argv[n] + 1 = b
             \/ /\ argc = MaxArgs
                /\ \A n \in 1 .. argc : argv[n] + 1 < b
  <2>1. b \in Nat /\ b <= Len(cmd)
    BY <1>1, LineShape, BeginsAre
  <2>2. CASE b <= token
    BY <1>1, <2>2 DEF SeenPart, Known
  <2>3. CASE b > token
    BY <1>1, <1>2, <2>1, <2>3 DEF SeenPart
  <2> QED
    BY <1>2, <2>1, <2>2, <2>3
<1> QED
  BY <1>1, <1>3, <1>4 DEF StartPart

(* When shell_execute looks for the command, argv points to the words of   *)
(* the line, in order, none left out but those behind the last place of    *)
(* argv, and each string from there to the next zero is its whole word     *)
(* (shell.c:277-295).                                                      *)
THEOREM EachArgumentIsAWord == Spec => []ArgumentsAreWords
  BY InvariantSays, Invariance, PTL

(* The pass reads and writes nothing behind the copy's terminating zero:   *)
(* the token stays in it, and the zero stays.                              *)
THEOREM PassStaysInCopy == Spec => []StaysInCopy
<1>1. IInv => StaysInCopy
  <2> SUFFICES ASSUME IInv, pc \in Running
               PROVE  token \in DOMAIN buffer /\ buffer[Len(cmd)] = Nul
    BY DEF StaysInCopy
  <2>1. CopyPart
    BY DEF IInv
  <2>2. Len(cmd) \in 0 .. Len(cmd)
    BY <2>1, LineShape
  <2> QED
    BY <2>1, <2>2 DEF CopyPart
<1> QED
  BY <1>1, Invariance, PTL

(***************************************************************************)
(* Induction: a set of natural numbers has a least element, so one that    *)
(* holds 0 and with each number the next holds them all.                   *)
(***************************************************************************)
Lesser == {p \in Nat \X Nat : p[1] < p[2]}

LEMMA Least ==
  ASSUME NEW T, T \subseteq Nat, T # {}
  PROVE  \E x \in T : \A y \in T : ~ (y < x)
<1>1. IsWellFoundedOn(OpToRel(<, Nat), Nat)
  BY NatLessThanWellFounded
<1>2. IsWellFoundedOn(Lesser, Nat)
  BY <1>1 DEF OpToRel, Lesser
<1>3. PICK x \in T : \A y \in T : ~ (<<y, x>> \in Lesser)
  BY <1>2, WFMin
<1>4. ASSUME NEW y \in T, y < x
      PROVE  FALSE
  <2>1. <<y, x>> \in Nat \X Nat /\ <<y, x>>[1] = y /\ <<y, x>>[2] = x
    OBVIOUS
  <2> QED
    BY <1>3, <1>4, <2>1 DEF Lesser
<1> QED
  BY <1>4

LEMMA Induction ==
  ASSUME NEW T, 0 \in T, \A n \in Nat : n \in T => n + 1 \in T
  PROVE  Nat \subseteq T
<1> SUFFICES ASSUME Nat \ T # {} PROVE FALSE
  OBVIOUS
<1>1. PICK x \in Nat \ T : \A y \in Nat \ T : ~ (y < x)
  BY Least
<1>2. x # 0 /\ x - 1 \in Nat /\ x - 1 < x
  OBVIOUS
<1>3. x - 1 \in T
  BY <1>1, <1>2
<1>4. x - 1 + 1 = x
  OBVIOUS
<1> QED
  BY <1>2, <1>3, <1>4

(***************************************************************************)
(* Words and Notebook                                                      *)
(***************************************************************************)
JoinStep(ws, g, n) ==
  IF n = 0 THEN <<>>
  ELSE (IF n = 1 THEN <<>> ELSE g[n - 1] \o <<Space>>) \o ws[n]

LEMMA JoinsIs ==
  ASSUME NEW ws, Len(ws) \in Nat
  PROVE  \A n \in 0 .. Len(ws) :
           Book!Joins(ws)[n] = JoinStep(ws, Book!Joins(ws), n)
<1> DEFINE Fits(g, k) == g = [n \in 0 .. k |-> JoinStep(ws, g, n)]
           T == {k \in Nat : \E g : Fits(g, k)}
<1>1. 0 \in T
  <2>1. Fits([n \in 0 .. 0 |-> <<>>], 0)
    <3>1. \A n \in 0 .. 0 : JoinStep(ws, [m \in 0 .. 0 |-> <<>>], n) = <<>>
      BY DEF JoinStep
    <3> QED
      BY <3>1
  <2> HIDE DEF Fits
  <2> QED
    BY <2>1
<1>2. ASSUME NEW k \in Nat, k \in T
      PROVE  k + 1 \in T
  <2>1. PICK g : Fits(g, k)
    BY <1>2
  <2> DEFINE h == [n \in 0 .. k + 1 |-> JoinStep(ws, g, n)]
  <2>2. \A n \in 0 .. k : h[n] = g[n]
    BY <2>1
  <2>3. \A n \in 0 .. k + 1 : JoinStep(ws, h, n) = JoinStep(ws, g, n)
    <3> HIDE DEF h
    <3> SUFFICES ASSUME NEW n \in 0 .. k + 1
                 PROVE  JoinStep(ws, h, n) = JoinStep(ws, g, n)
      OBVIOUS
    <3>1. n > 1 => n - 1 \in 0 .. k
      OBVIOUS
    <3> QED
      BY <2>2, <3>1 DEF JoinStep
  <2>4. Fits(h, k + 1)
    BY <2>3
  <2> HIDE DEF Fits, h
  <2> QED
    BY <2>4
<1>3. Nat \subseteq T
  <2> HIDE DEF T
  <2> QED
    BY <1>1, <1>2, Induction
<1>4. \E g : Fits(g, Len(ws))
  BY <1>3
<1>5. Book!Joins(ws) = CHOOSE g : Fits(g, Len(ws))
  BY DEF Book!Joins, JoinStep
<1>6. Fits(Book!Joins(ws), Len(ws))
  <2> HIDE DEF Fits
  <2> QED
    BY <1>4, <1>5
<1> DEFINE f == Book!Joins(ws)
<1>7. f = [n \in 0 .. Len(ws) |-> JoinStep(ws, f, n)]
  BY <1>6
<1> HIDE DEF f
<1>8. \A n \in 0 .. Len(ws) : f[n] = JoinStep(ws, f, n)
  BY <1>7
<1> QED
  BY <1>8 DEF f

(***************************************************************************)
(* What Notebook takes for the words of the line is what argv points to.   *)
(***************************************************************************)
Letter == Character \cup {Space}

LEMMA WordsInArgv ==
  ASSUME IInv, pc \in {"done", "text"}
  PROVE  /\ argc \in Nat /\ argc <= MaxArgs
         /\ \A n \in 1 .. argc :
              /\ argv[n] \in Nat /\ argv[n] + 1 \in Begins
              /\ Argument(n) = Book!WordAt(cmd, argv[n] + 1)
              /\ Argument(n) \in Seq(Letter)
         /\ \A n, m \in 1 .. argc : n < m => argv[n] < argv[m]
         /\ \A b \in Begins :
              \/ \E n \in 1 .. argc : argv[n] + 1 = b
              \/ argc = MaxArgs /\ \A n \in 1 .. argc : argv[n] + 1 < b
         /\ IsFiniteSet(Begins) /\ Begins \subseteq Nat
<1>1. CopyPart /\ StartPart /\ SeenPart /\ EndPart
  BY DEF IInv, Running
<1>2. /\ argc \in Nat /\ argc <= MaxArgs /\ Len(cmd) \in Nat
      /\ \A n \in 1 .. argc : argv[n] \in Nat
  BY <1>1, LineShape, LenProperties, ElementOfSeq DEF StartPart, argc
<1>3. ArgumentsAreWords
  BY InvariantSays
<1>4. ASSUME NEW n \in 1 .. argc
      PROVE  Argument(n) \in Seq(Letter)
  <2>1. PICK e \in argv[n] + 1 .. token :
          IsEnd(argv[n], e) /\ (e = Len(cmd) \/ e < token)
    BY <1>1 DEF EndPart
  <2>2. Argument(n) \in Seq(Character)
    BY <1>1, <1>2, <2>1, ArgumentIsWord
  <2>3. Character \subseteq Letter
    BY DEF Letter
  <2> QED
    BY <2>2, <2>3, SeqMonotonic
<1>5. IsFiniteSet(Begins) /\ Begins \subseteq Nat
  <2>1. Begins \subseteq 1 .. Len(cmd) /\ IsFiniteSet(1 .. Len(cmd))
    BY <1>2, BeginsAre, FS_Interval
  <2> QED
    <3>1. IsFiniteSet(Begins)
      BY <2>1, FS_Subset
    <3> QED
      BY <1>2, <2>1, <3>1
<1> QED
  BY <1>2, <1>3, <1>4, <1>5 DEF ArgumentsAreWords

(* The first n words are n.                                                *)
LEMMA FirstWords ==
  ASSUME IInv, pc \in {"done", "text"}, NEW n \in 0 .. argc
  PROVE  LET first == {argv[m] + 1 : m \in 1 .. n}
         IN  IsFiniteSet(first) /\ Cardinality(first) = n /\ first \subseteq Begins
<1> DEFINE first == {argv[m] + 1 : m \in 1 .. n}
           f == [m \in 1 .. n |-> argv[m] + 1]
<1>1. /\ argc \in Nat
      /\ \A m \in 1 .. argc : argv[m] \in Nat /\ argv[m] + 1 \in Begins
      /\ \A k, m \in 1 .. argc : k < m => argv[k] < argv[m]
  BY WordsInArgv
<1>2. \A m \in 1 .. n : m \in 1 .. argc
  BY <1>1
<1>3. f \in [1 .. n -> first] /\ \A t \in first : \E m \in 1 .. n : f[m] = t
  OBVIOUS
<1>4. ASSUME NEW k \in 1 .. n, NEW m \in 1 .. n, f[k] = f[m]
      PROVE  k = m
  <2>1. argv[k] + 1 = argv[m] + 1 /\ argv[k] \in Nat /\ argv[m] \in Nat
    BY <1>1, <1>2, <1>4
  <2> QED
    BY <1>1, <1>2, <2>1
<1>5. ExistsBijection(1 .. n, first)
  <2> HIDE DEF f, first
  <2>1. f \in Bijection(1 .. n, first)
    BY <1>3, <1>4, Fun_IsBij
  <2> QED
    BY <2>1 DEF ExistsBijection
<1>6. IsFiniteSet(1 .. n) /\ Cardinality(1 .. n) = n
  BY <1>1, FS_Interval
<1>7. IsFiniteSet(first) /\ Cardinality(first) = n
  <2> HIDE DEF first
  <2> QED
    BY <1>5, <1>6, FS_Bijection
<1> QED
  BY <1>1, <1>2, <1>7

LEMMA NthInArgv ==
  ASSUME IInv, pc \in {"done", "text"}, NEW n \in 1 .. argc
  PROVE  Book!Nth(cmd, n) = argv[n] + 1
<1> DEFINE x == argv[n] + 1
           To(b) == {j \in Begins : j <= b}
           first == {argv[m] + 1 : m \in 1 .. n}
<1>1. /\ argc \in Nat /\ IsFiniteSet(Begins) /\ Begins \subseteq Nat
      /\ \A m \in 1 .. argc : argv[m] \in Nat /\ argv[m] + 1 \in Begins
      /\ \A k, m \in 1 .. argc : k < m => argv[k] < argv[m]
      /\ \A b \in Begins :
           \/ \E m \in 1 .. argc : argv[m] + 1 = b
           \/ \A m \in 1 .. argc : argv[m] + 1 < b
  BY WordsInArgv
<1>2. To(x) = first
  <2>1. ASSUME NEW b \in Begins, b <= x
        PROVE  b \in first
    <3>1. PICK m \in 1 .. argc : argv[m] + 1 = b
      BY <1>1, <2>1
    <3>2. ~ (n < m)
      BY <1>1, <2>1, <3>1
    <3>3. m \in 1 .. n
      BY <1>1, <3>2
    <3> QED
      BY <3>1, <3>3
  <2>2. ASSUME NEW m \in 1 .. n
        PROVE  argv[m] + 1 \in Begins /\ argv[m] + 1 <= x
    <3>1. m \in 1 .. argc /\ (m = n \/ m < n)
      BY <1>1
    <3> QED
      BY <1>1, <3>1
  <2> QED
    BY <2>1, <2>2
<1>3. Cardinality(first) = n /\ x \in Begins
  <2>1. n \in 0 .. argc
    BY <1>1
  <2> QED
    BY <1>1, <2>1, FirstWords
<1>4. ASSUME NEW b \in Begins, Cardinality(To(b)) = n
      PROVE  b = x
  <2>1. b \in Nat /\ x \in Nat /\ b \in To(b) /\ x \in To(x)
    BY <1>1, <1>3
  <2>2. IsFiniteSet(To(b)) /\ IsFiniteSet(To(x))
    BY <1>1, FS_Subset
  <2>3. Cardinality(To(b)) = Cardinality(To(x))
    BY <1>2, <1>3, <1>4
  <2>4. b <= x => \A j \in To(b) : j \in To(x)
    BY <1>1, <2>1
  <2>5. x <= b => \A j \in To(x) : j \in To(b)
    BY <1>1, <2>1
  <2>6. To(b) = To(x)
    <3> HIDE DEF To, x
    <3> QED
      BY <2>1, <2>2, <2>3, <2>4, <2>5, FS_Subset
  <2> QED
    BY <2>1, <2>6
<1>5. Book!Nth(cmd, n) = CHOOSE b \in Begins : Cardinality(To(b)) = n
  BY Zenon DEF Book!Nth, Begins, Cardinality, Book!Cardinality
<1>6. Cardinality(To(x)) = n
  BY <1>2, <1>3
<1> QED
  <2> HIDE DEF To, x
  <2>1. Book!Nth(cmd, n) = x
    BY <1>3, <1>4, <1>5, <1>6
  <2> QED
    BY <2>1 DEF x

LEMMA ArgsInArgv ==
  ASSUME IInv, pc \in {"done", "text"}
  PROVE  /\ Book!Args \in Seq(Seq(Letter))
         /\ Len(Book!Args) = argc
         /\ \A n \in 1 .. argc : Book!Args[n] = Argument(n)
<1> DEFINE w == Book!WordsOf(cmd)
           c == Cardinality(Begins)
           S == {w[n] : n \in 1 .. c}
           most == IF c > MaxArgs THEN MaxArgs ELSE c
<1>1. /\ argc \in Nat /\ argc <= MaxArgs /\ MaxArgs \in Nat
      /\ IsFiniteSet(Begins) /\ c \in Nat
      /\ \A n \in 1 .. argc : /\ Argument(n) = Book!WordAt(cmd, argv[n] + 1)
                              /\ Argument(n) \in Seq(Letter)
      /\ \A b \in Begins :
           \/ \E m \in 1 .. argc : argv[m] + 1 = b
           \/ argc = MaxArgs
  BY WordsInArgv, CommandLineAssumption, FS_CardinalityType
<1>2. w = [n \in 1 .. c |-> Book!WordAt(cmd, Book!Nth(cmd, n))]
  BY Zenon DEF Book!WordsOf, Begins, Cardinality, Book!Cardinality
<1>3. most = argc
  <2> DEFINE first == {argv[m] + 1 : m \in 1 .. argc}
  <2>1. Cardinality(first) = argc /\ first \subseteq Begins
    <3>1. argc \in 0 .. argc
      BY <1>1
    <3> QED
      BY <3>1, FirstWords
  <2>2. argc <= c
    <3> HIDE DEF first
    <3> QED
      BY <1>1, <2>1, FS_Subset
  <2>3. argc # MaxArgs => Begins = first
    BY <1>1, <2>1
  <2> HIDE DEF first
  <2> QED
    BY <1>1, <2>1, <2>2, <2>3
<1>4. w \in Seq(S) /\ Len(w) = c
  <2>1. w \in [1 .. c -> S]
    BY <1>2
  <2> HIDE DEF w, c, S
  <2> QED
    BY <1>1, <2>1, LenProperties
<1>5. Book!Args = SubSeq(w, 1, argc)
  <2>1. Book!Args = SubSeq(w, 1, IF Len(w) > MaxArgs THEN MaxArgs ELSE Len(w))
    BY DEF Book!Args
  <2> HIDE DEF w, c, S
  <2> QED
    BY <1>3, <1>4, <2>1
<1>6. \A n \in 1 .. argc : w[n] = Argument(n)
  <2> SUFFICES ASSUME NEW n \in 1 .. argc
               PROVE  w[n] = Argument(n)
    OBVIOUS
  <2>1. n \in 1 .. c
    BY <1>1, <1>3
  <2>2. Book!Nth(cmd, n) = argv[n] + 1
    BY NthInArgv
  <2> HIDE DEF c
  <2> QED
    BY <1>1, <1>2, <2>1, <2>2
<1> HIDE DEF w
<1>7. \A n \in 1 .. argc : w[n] \in Seq(Letter)
  BY <1>1, <1>6
<1>8. /\ SubSeq(w, 1, argc) \in Seq(Seq(Letter))
      /\ Len(SubSeq(w, 1, argc)) = IF 1 <= argc THEN argc - 1 + 1 ELSE 0
      /\ \A n \in 1 .. argc - 1 + 1 : SubSeq(w, 1, argc)[n] = w[1 + n - 1]
  BY <1>1, <1>7, SubSeqProperties
<1>9. Len(SubSeq(w, 1, argc)) = argc /\ argc - 1 + 1 = argc
  BY <1>1, <1>8
<1>10. \A n \in 1 .. argc : SubSeq(w, 1, argc)[n] = w[n]
  <2> HIDE DEF S
  <2> SUFFICES ASSUME NEW n \in 1 .. argc
               PROVE  SubSeq(w, 1, argc)[n] = w[n]
    OBVIOUS
  <2>1. 1 + n - 1 = n
    OBVIOUS
  <2> QED
    BY <1>8, <1>9, <2>1
<1> QED
  BY <1>5, <1>6, <1>8, <1>9, <1>10

LEMMA JoinMore ==
  ASSUME NEW ws, Len(ws) \in Nat, NEW k \in Nat, k < Len(ws)
  PROVE  Book!Joins(ws)[k + 1]
           = (IF k = 0 THEN <<>> ELSE Book!Joins(ws)[k] \o <<Space>>) \o ws[k + 1]
<1> DEFINE n == k + 1
           g == Book!Joins(ws)
<1>1. n \in 0 .. Len(ws) /\ n # 0 /\ n - 1 = k /\ (n = 1 <=> k = 0)
  OBVIOUS
<1> HIDE DEF n, g
<1>2. g[n] = JoinStep(ws, g, n)
  BY <1>1, JoinsIs DEF g
<1>3. CASE n = 1
  <2>1. JoinStep(ws, g, n) = <<>> \o ws[n]
    BY <1>1, <1>3 DEF JoinStep
  <2> QED
    BY <1>1, <1>2, <1>3, <2>1 DEF n, g
<1>4. CASE n # 1
  <2>1. JoinStep(ws, g, n) = g[n - 1] \o <<Space>> \o ws[n]
    BY <1>1, <1>4 DEF JoinStep
  <2> QED
    BY <1>1, <1>2, <1>4, <2>1 DEF n, g
<1> QED
  BY <1>3, <1>4

(***************************************************************************)
(* The text a command puts together, and the files                         *)
(***************************************************************************)
(* The words of the line from one on.                                      *)
From(first) == SubSeq(Book!Args, first, argc)

TextFrom(first) ==
  /\ i \in first .. argc + 1
  /\ text = IF i = first THEN <<>>
            ELSE IF i = argc + 1 THEN Book!Joins(From(first))[i - first]
            ELSE Book!Joins(From(first))[i - first] \o <<Space>>

TextPart ==
  /\ text \in Seq(Letter)
  /\ pc # "text" => text = <<>>
  /\ pc = "text" => \/ Argument(1) = Named["echo"] /\ argc >= 1 /\ TextFrom(2)
                    \/ Argument(1) = Named["write"] /\ argc >= 3 /\ TextFrom(3)

File == [start : BOOLEAN, size : Nat, sector : Seq(Letter)]

FilesPart ==
  /\ files \in [DOMAIN files -> File]
  /\ \A n \in DOMAIN files : ~ files[n].start => files[n] = NoSector

RInv == IInv /\ TextPart /\ FilesPart

LEMMA FromIs ==
  ASSUME IInv, pc \in {"done", "text"}, NEW first \in {2, 3}, first <= argc + 1
  PROVE  /\ Len(From(first)) = argc + 1 - first
         /\ \A k \in 1 .. argc + 1 - first : From(first)[k] = Argument(first + k - 1)
<1>1. /\ argc \in Nat
      /\ \A n \in 1 .. argc : Book!Args[n] = Argument(n) /\ Argument(n) \in Seq(Letter)
  BY WordsInArgv, ArgsInArgv
<1>2. \A n \in first .. argc : n \in 1 .. argc
  BY <1>1
<1>3. /\ Len(From(first)) = IF first <= argc THEN argc - first + 1 ELSE 0
      /\ \A k \in 1 .. argc - first + 1 : From(first)[k] = Book!Args[first + k - 1]
  BY <1>1, <1>2, SubSeqProperties DEF From
<1>4. argc - first + 1 = argc + 1 - first
  BY <1>1
<1>5. Len(From(first)) = argc + 1 - first
  BY <1>1, <1>3
<1>6. ASSUME NEW k \in 1 .. argc + 1 - first
      PROVE  From(first)[k] = Argument(first + k - 1)
  <2>1. first + k - 1 \in 1 .. argc /\ k \in 1 .. argc - first + 1
    BY <1>1
  <2> QED
    BY <1>1, <1>3, <2>1
<1> QED
  BY <1>5, <1>6

(* The words from the nth on, joined.                                      *)
LEMMA WholeText ==
  ASSUME IInv, pc = "text", NEW first \in {2, 3}, TextFrom(first), i = argc + 1
  PROVE  text = Book!Joined(From(first))
<1>1. argc \in Nat /\ first <= argc + 1 /\ i - first = argc + 1 - first
  BY WordsInArgv DEF TextFrom
<1>2. Len(From(first)) = argc + 1 - first
  BY <1>1, FromIs
<1>3. Book!Joined(From(first)) = Book!Joins(From(first))[i - first]
  BY <1>1, <1>2 DEF Book!Joined
<1>4. i = first => Book!Joins(From(first))[i - first] = <<>>
  BY <1>1, <1>2, JoinsIs DEF JoinStep
<1> QED
  BY <1>3, <1>4 DEF TextFrom

LEMMA LineStays ==
  ASSUME UNCHANGED line_vars
  PROVE  /\ argc' = argc
         /\ \A n : Argument(n)' = Argument(n)
         /\ \A first : From(first)' = From(first)
<1>1. UNCHANGED <<cmd, buffer, argv>>
  BY DEF line_vars
<1>2. Book!Args' = Book!Args
  BY <1>1 DEF Book!Args, Book!WordsOf, Book!WordAt, Book!Nth, Book!Begins
<1> QED
  BY <1>1, <1>2 DEF argc, Argument, From

LEMMA AddArgumentKeeps ==
  ASSUME IInv, TextPart, AddArgument, NEW first \in {2, 3}, TextFrom(first)
  PROVE  TextFrom(first)' /\ text' \in Seq(Letter)
<1> DEFINE ws == From(first)
           k == i - first
<1>1. /\ pc = "text" /\ i <= argc /\ i' = i + 1
      /\ text' = text \o Argument(i) \o (IF i # argc THEN <<Space>> ELSE <<>>)
      /\ text \in Seq(Letter) /\ UNCHANGED line_vars
  BY DEF AddArgument, TextPart
<1>2. /\ argc \in Nat /\ i \in first .. argc /\ i \in 1 .. argc
      /\ Argument(i) \in Seq(Letter)
      /\ text = IF i = first THEN <<>> ELSE Book!Joins(ws)[k] \o <<Space>>
  <2>1. argc \in Nat /\ i \in first .. argc
    BY <1>1, WordsInArgv DEF TextFrom
  <2>2. i \in 1 .. argc /\ i # argc + 1
    BY <2>1
  <2> QED
    BY <1>1, <2>1, <2>2, WordsInArgv DEF TextFrom
<1>3. Len(ws) = argc + 1 - first /\ ws[k + 1] = Argument(i)
  <2>1. k + 1 \in 1 .. argc + 1 - first /\ first + (k + 1) - 1 = i
    BY <1>2
  <2>2. first <= argc + 1
    BY <1>2
  <2>3. From(first)[k + 1] = Argument(first + (k + 1) - 1)
    BY <1>1, <2>1, <2>2, FromIs
  <2>4. Len(From(first)) = argc + 1 - first
    BY <1>1, <2>2, FromIs
  <2> QED
    BY <2>1, <2>3, <2>4
<1>4. Book!Joins(ws)[k + 1] = text \o Argument(i)
  <2>1. Len(ws) \in Nat
    BY <1>2, <1>3
  <2>3. k \in Nat /\ k < Len(ws) /\ (k = 0 <=> i = first)
    BY <1>2, <1>3
  <2> HIDE DEF ws, k
  <2>4. Book!Joins(ws)[k + 1]
          = (IF k = 0 THEN <<>> ELSE Book!Joins(ws)[k] \o <<Space>>) \o ws[k + 1]
    BY <2>1, <2>3, JoinMore
  <2> QED
    BY <1>2, <1>3, <2>3, <2>4
<1>5. /\ text \o Argument(i) \in Seq(Letter)
      /\ text \o Argument(i) \o <<>> = text \o Argument(i)
      /\ text \o Argument(i) \o <<Space>> \in Seq(Letter)
  <2>1. <<Space>> \in Seq(Letter)
    BY DEF Letter
  <2>2. text \o Argument(i) \in Seq(Letter)
    BY <1>1, <1>2, ConcatProperties
  <2> QED
    BY <2>1, <2>2, ConcatProperties, ConcatEmptySeq
<1>6. i' - first = k + 1 /\ i' \in first .. argc + 1 /\ i' # first
  BY <1>1, <1>2
<1>7. i' = argc + 1 <=> i = argc
  BY <1>1, <1>2
<1>8. text' = IF i' = argc + 1 THEN Book!Joins(ws)[i' - first]
              ELSE Book!Joins(ws)[i' - first] \o <<Space>>
  <2> HIDE DEF ws, k
  <2> QED
    BY <1>1, <1>4, <1>5, <1>6, <1>7
<1>9. argc' = argc /\ From(first)' = From(first)
  BY <1>1, LineStays
<1> QED
  BY <1>1, <1>5, <1>6, <1>8, <1>9 DEF TextFrom

LEMMA NoSectorIsFile == NoSector \in File /\ ~ NoSector.start
<1>1. <<>> \in Seq(Letter)
  OBVIOUS
<1> QED
  BY <1>1 DEF NoSector, File

LEMMA FilesStay == ASSUME FilesPart, UNCHANGED files PROVE FilesPart'
  BY DEF FilesPart

LEMMA TouchKeeps == ASSUME FilesPart, cmd_touch PROVE FilesPart'
<1>1. CASE UNCHANGED files
  BY <1>1, FilesStay
<1>2. CASE files' = [n \in DOMAIN files \cup {Argument(2)} |->
                       IF n = Argument(2) THEN NoSector ELSE files[n]]
  <2>1. DOMAIN files' = DOMAIN files \cup {Argument(2)}
    BY <1>2
  <2>2. \A n \in DOMAIN files' :
          files'[n] = NoSector \/ (n \in DOMAIN files /\ files'[n] = files[n])
    BY <1>2
  <2>3. \A n \in DOMAIN files' :
          files'[n] \in File /\ (~ files'[n].start => files'[n] = NoSector)
    BY <2>2, NoSectorIsFile DEF FilesPart
  <2>4. files' = [n \in DOMAIN files' |-> files'[n]]
    BY <1>2, <2>1
  <2> QED
    BY <2>3, <2>4 DEF FilesPart
<1> QED
  BY <1>1, <1>2 DEF cmd_touch

LEMMA RmKeeps == ASSUME FilesPart, cmd_rm PROVE FilesPart'
<1>1. CASE UNCHANGED files
  BY <1>1, FilesStay
<1>2. CASE files' = [n \in DOMAIN files \ {Argument(2)} |-> files[n]]
  BY <1>2 DEF FilesPart
<1> QED
  BY <1>1, <1>2 DEF cmd_rm

LEMMA MkfsKeeps == ASSUME FilesPart, cmd_mkfs PROVE FilesPart'
<1>1. PICK left \in SUBSET DOMAIN files : files' = [n \in left |-> files[n]]
  BY DEF cmd_mkfs
<1> QED
  BY <1>1 DEF FilesPart

LEMMA WriteKeeps == ASSUME FilesPart, TextPart, cmd_write PROVE FilesPart'
<1> DEFINE a == Argument(2)
<1>1. text \in Seq(Letter) /\ Len(text) \in Nat
  BY LenProperties DEF TextPart
<1>2. CASE UNCHANGED files
  BY <1>2, FilesStay
<1>3. CASE /\ a \in DOMAIN files
           /\ files' = [files EXCEPT ![a] =
                          [start |-> TRUE, size |-> Len(text), sector |-> text]]
  <2>1. [start |-> TRUE, size |-> Len(text), sector |-> text] \in File
    BY <1>1 DEF File
  <2> HIDE DEF a
  <2> QED
    BY <1>3, <2>1 DEF FilesPart
<1>4. CASE /\ a \in DOMAIN files /\ files[a].start
           /\ files' = [files EXCEPT ![a].sector = text]
  <2> HIDE DEF a
  <2>1. files[a] \in File
    BY <1>4 DEF FilesPart
  <2>2. /\ [files[a] EXCEPT !.sector = text] \in File
        /\ [files[a] EXCEPT !.sector = text].start = files[a].start
    BY <1>1, <2>1 DEF File
  <2>3. files' = [files EXCEPT ![a] = [files[a] EXCEPT !.sector = text]]
    BY <1>4
  <2> QED
    BY <1>4, <2>2, <2>3 DEF FilesPart
<1> QED
  BY <1>2, <1>3, <1>4 DEF cmd_write, Exists

LEMMA PromptText == ASSUME pc' = "prompt", text' = <<>> PROVE TextPart'
<1>1. <<>> \in Seq(Letter)' /\ Seq(Letter)' = Seq(Letter)
  OBVIOUS
<1> QED
  BY <1>1 DEF TextPart

Ends ==
  \/ NoCommand \/ UnknownCommand
  \/ Usage("touch", 2) \/ Usage("rm", 2) \/ Usage("cat", 2) \/ Usage("write", 3)
  \/ cmd_touch \/ cmd_rm \/ cmd_cat \/ cmd_mkfs \/ OtherCommand
  \/ cmd_echo \/ cmd_write

LEMMA EndsKeep == ASSUME RInv, Ends PROVE TextPart' /\ FilesPart'
<1>1. FilesPart /\ TextPart
  BY DEF RInv
<1>2. pc' = "prompt" /\ text' = <<>>
  BY DEF Ends, NoCommand, UnknownCommand, Usage, cmd_touch, cmd_rm, cmd_cat,
     cmd_mkfs, OtherCommand, cmd_echo, cmd_write, Prompt
<1>3. TextPart'
  BY <1>2, PromptText
<1>4. CASE cmd_touch \/ cmd_rm \/ cmd_write
  BY <1>1, <1>3, <1>4, TouchKeeps, RmKeeps, WriteKeeps
<1>5. CASE cmd_mkfs
  BY <1>1, <1>3, <1>5, MkfsKeeps
<1>6. CASE ~ (cmd_touch \/ cmd_rm \/ cmd_write \/ cmd_mkfs)
  <2>1. UNCHANGED files
    BY <1>6 DEF Ends, NoCommand, UnknownCommand, Usage, cmd_cat, OtherCommand,
       cmd_echo
  <2> QED
    BY <1>1, <1>3, <2>1, FilesStay
<1> QED
  BY <1>4, <1>5, <1>6

LEMMA StartTextKeeps ==
  ASSUME RInv, StartText("echo", 2, 1) \/ StartText("write", 3, 3)
  PROVE  TextPart' /\ FilesPart'
<1>1. /\ IInv /\ TextPart /\ FilesPart /\ pc = "done" /\ pc' = "text"
      /\ UNCHANGED <<cmd, buffer, token, argv, files, text>>
      /\ \/ Argument(1) = Named["echo"] /\ argc >= 1 /\ i' = 2
         \/ Argument(1) = Named["write"] /\ argc >= 3 /\ i' = 3
  BY DEF RInv, StartText, Runs
<1>2. argc' = argc /\ Argument(1)' = Argument(1) /\ argc \in Nat
  BY <1>1, WordsInArgv DEF argc, Argument
<1>3. text = <<>> /\ text \in Seq(Letter)
  BY <1>1 DEF TextPart
<1>4. \A first \in {2, 3} : argc >= first - 1 /\ i' = first => TextFrom(first)'
  BY <1>1, <1>2, <1>3 DEF TextFrom
<1>5. TextPart'
  BY <1>1, <1>2, <1>3, <1>4 DEF TextPart
<1> QED
  BY <1>1, <1>5, FilesStay

LEMMA AddArgumentKeepsParts ==
  ASSUME RInv, AddArgument
  PROVE  TextPart' /\ FilesPart'
<1>1. /\ IInv /\ TextPart /\ FilesPart /\ pc = "text" /\ pc' = "text"
      /\ UNCHANGED line_vars /\ UNCHANGED files
  BY DEF RInv, AddArgument, line_vars
<1>2. argc' = argc /\ Argument(1)' = Argument(1)
  BY <1>1, LineStays
<1>3. \/ Argument(1) = Named["echo"] /\ argc >= 1 /\ TextFrom(2)
      \/ Argument(1) = Named["write"] /\ argc >= 3 /\ TextFrom(3)
  BY <1>1 DEF TextPart
<1>4. CASE Argument(1) = Named["echo"] /\ argc >= 1 /\ TextFrom(2)
  <2>1. TextFrom(2)' /\ text' \in Seq(Letter)
    BY <1>1, <1>4, AddArgumentKeeps
  <2> QED
    BY <1>1, <1>2, <1>4, <2>1, FilesStay DEF TextPart
<1>5. CASE Argument(1) = Named["write"] /\ argc >= 3 /\ TextFrom(3)
  <2>1. TextFrom(3)' /\ text' \in Seq(Letter)
    BY <1>1, <1>5, AddArgumentKeeps
  <2> QED
    BY <1>1, <1>2, <1>5, <2>1, FilesStay DEF TextPart
<1> QED
  BY <1>3, <1>4, <1>5

LEMMA QuietKeeps ==
  ASSUME RInv, pc # "text", pc' # "text", UNCHANGED <<text, files>>
  PROVE  TextPart' /\ FilesPart'
BY FilesStay DEF RInv, TextPart

LEMMA CutKeepsPc == ASSUME CutLine PROVE pc \notin {"text", "prompt"} /\ pc' \notin {"text", "prompt"}
BY DEF CutLine, NextArgument, SkipSpace, StartArgument, SkipLetter, EndArgument, EndLine

LEMMA NextIs ==
  Next => \/ \E l \in Line : Enter(l)
          \/ CutLine /\ UNCHANGED <<files, text, i, out>>
          \/ StartText("echo", 2, 1) \/ StartText("write", 3, 3)
          \/ AddArgument
          \/ Ends
BY DEF Next, Execute, Ends

LEMMA RStepKeeps == RInv /\ [Next]_vars => RInv'
<1> SUFFICES ASSUME RInv, [Next]_vars PROVE TextPart' /\ FilesPart'
  BY StepKeeps DEF RInv
<1>1. CASE \E l \in Line : Enter(l)
  <2>1. pc # "text" /\ pc' # "text" /\ UNCHANGED <<text, files>>
    BY <1>1 DEF Enter, StartLine
  <2> QED
    BY <2>1, QuietKeeps
<1>2. CASE CutLine /\ UNCHANGED <<files, text, i, out>>
  BY <1>2, CutKeepsPc, QuietKeeps
<1>3. CASE StartText("echo", 2, 1) \/ StartText("write", 3, 3)
  BY <1>3, StartTextKeeps
<1>4. CASE AddArgument
  BY <1>4, AddArgumentKeepsParts
<1>5. CASE Ends
  BY <1>5, EndsKeep
<1>6. CASE UNCHANGED vars
  <2>1. /\ UNCHANGED line_vars /\ UNCHANGED <<cmd, buffer, argv, pc, files, text, i>>
        /\ TextPart /\ FilesPart
    BY <1>6 DEF vars, line_vars, RInv
  <2>2. /\ argc' = argc /\ Argument(1)' = Argument(1)
        /\ \A first : From(first)' = From(first)
    BY <2>1, LineStays
  <2>3. \A first \in {2, 3} : TextFrom(first) => TextFrom(first)'
    BY <2>1, <2>2 DEF TextFrom
  <2> QED
    BY <2>1, <2>2, <2>3, FilesStay DEF TextPart
<1> QED
  BY <1>1, <1>2, <1>3, <1>4, <1>5, <1>6, NextIs

LEMMA RInit == Init => RInv
<1> SUFFICES ASSUME Init PROVE RInv
  OBVIOUS
<1>1. IInv
  BY DEF Init, IInv, Running
<1>2. <<>> \in Seq(Letter)
  OBVIOUS
<1>3. TextPart
  BY <1>2 DEF Init, TextPart
<1>4. FilesPart
  <2>1. files = [n \in {} |-> NoSector] /\ DOMAIN files = {}
    BY DEF Init, NoFiles
  <2>2. [n \in {} |-> NoSector] \in [{} -> File]
    OBVIOUS
  <2> QED
    BY <2>1, <2>2 DEF FilesPart
<1> QED
  BY <1>1, <1>3, <1>4 DEF RInv

LEMMA RInvariance == Spec => []RInv
  BY RInit, RStepKeeps, PTL DEF Spec

(***************************************************************************)
(* Every step is Notebook's or none                                        *)
(***************************************************************************)
Notes == [n \in DOMAIN files |-> [written |-> files[n].start,
                                  text |-> Printed(files[n])]]

LEMMA NotesAre ==
  /\ DOMAIN Notes = DOMAIN files
  /\ \A n \in DOMAIN files : /\ Notes[n].written = files[n].start
                             /\ Notes[n].text = Printed(files[n])
BY DEF Notes

LEMMA CommandIs ==
  ASSUME IInv, pc \in {"done", "text"}
  PROVE  /\ argc = 0 <=> Book!Args = <<>>
         /\ Len(Book!Args) = argc
         /\ \A n \in 1 .. argc : Book!Args[n] = Argument(n)
<1>1. /\ Book!Args \in Seq(Seq(Letter)) /\ Len(Book!Args) = argc
      /\ \A n \in 1 .. argc : Book!Args[n] = Argument(n)
  BY ArgsInArgv
<1>2. Book!Args = <<>> <=> Len(Book!Args) = 0
  BY <1>1, EmptySeq
<1> QED
  BY <1>1, <1>2

LEMMA RunsIs ==
  ASSUME IInv, NEW c, pc \in {"done", "text"}, argc > 0, Argument(1) = Named[c]
  PROVE  Book!Command(c)
<1>1. argc \in Nat /\ 1 \in 1 .. argc
  BY WordsInArgv
<1> QED
  BY <1>1, CommandIs DEF Book!Command

LEMMA PromptAnswers ==
  ASSUME NEW r, Prompt(r)
  PROVE  Book!Answer(r)
BY DEF Prompt, Book!Answer

LEMMA NotesStay == ASSUME UNCHANGED files PROVE Notes' = Notes
BY DEF Notes, Printed

LEMMA SaysIs == \A what : Says(what) = Book!Says(what)
BY DEF Says, Book!Says

LEMMA Fails ==
  ASSUME RInv, NEW c, NEW n, pc \in {"done", "text"}, argc > 0,
         Argument(1) = Named[c], UNCHANGED files,
         Prompt(Says(IF argc < n THEN "usage" ELSE "failed"))
  PROVE  Book!Complain(c, n)
<1>1. IInv
  BY DEF RInv
<1>2. Book!Command(c) /\ Len(Book!Args) = argc
  BY <1>1, RunsIs, CommandIs
<1>3. Book!Answer(Book!Says(IF argc < n THEN "usage" ELSE "failed"))
  BY PromptAnswers, SaysIs
<1>4. Notes' = Notes
  BY NotesStay
<1> QED
  BY <1>2, <1>3, <1>4 DEF Book!Complain, Notes

LEMMA PrintedNothing == Printed(NoSector) = <<>>
<1>1. NoSector.size = 0 /\ NoSector.sector = <<>> /\ Len(<<>>) = 0
  BY DEF NoSector
<1>2. Printed(NoSector) = SubSeq(<<>>, 1, 0)
  BY <1>1 DEF Printed
<1>3. SubSeq(<<>>, 1, 0) = <<>>
  BY SubSeqEmpty
<1> QED
  BY <1>2, <1>3

(* A command with enough words has its second one in argv.                 *)
LEMMA SecondWord ==
  ASSUME RInv, NEW c, pc \in {"done", "text"}, argc >= 2, Argument(1) = Named[c]
  PROVE  /\ Book!Command(c) /\ Len(Book!Args) = argc
         /\ Book!Args[2] = Argument(2)
         /\ IInv /\ FilesPart
<1>1. IInv /\ FilesPart
  BY DEF RInv
<1>2. argc \in Nat /\ argc > 0 /\ 2 \in 1 .. argc
  BY <1>1, WordsInArgv
<1> QED
  BY <1>1, <1>2, RunsIs, CommandIs

LEMMA TouchIs == ASSUME RInv, cmd_touch PROVE Book!Next
<1>1. pc = "done" /\ argc >= 2 /\ argc > 0 /\ Argument(1) = Named["touch"]
  BY DEF cmd_touch, Runs
<1>2. /\ Book!Command("touch") /\ Len(Book!Args) = argc
      /\ Book!Args[2] = Argument(2) /\ argc \in Nat
  BY <1>1, SecondWord, WordsInArgv
<1>3. CASE Prompt(Says("failed")) /\ UNCHANGED files
  <2>1. ~ (argc < 2)
    BY <1>1, <1>2
  <2>2. Book!Complain("touch", 2)
    BY <1>1, <1>3, <2>1, Fails
  <2> QED
    BY <2>2 DEF Book!Next
<1>4. CASE /\ ~ Exists
           /\ files' = [n \in DOMAIN files \cup {Argument(2)} |->
                          IF n = Argument(2) THEN NoSector ELSE files[n]]
           /\ Prompt(Says("done"))
  <2>1. Argument(2) \notin DOMAIN Notes
    BY <1>4, NotesAre DEF Exists
  <2>2. Notes' = [n \in DOMAIN Notes \cup {Argument(2)} |->
                    IF n = Argument(2) THEN Book!Unwritten ELSE Notes[n]]
    <3>1. DOMAIN files' = DOMAIN files \cup {Argument(2)}
      BY <1>4
    <3>2. \A n \in DOMAIN files' :
            files'[n] = IF n = Argument(2) THEN NoSector ELSE files[n]
      BY <1>4
    <3>3. Notes' = [n \in DOMAIN files' |-> [written |-> files'[n].start,
                                             text |-> Printed(files'[n])]]
      BY DEF Notes, Printed
    <3>4. [written |-> NoSector.start, text |-> Printed(NoSector)] = Book!Unwritten
      BY PrintedNothing DEF Book!Unwritten, NoSector
    <3>5. \A n \in DOMAIN files :
            Notes[n] = [written |-> files[n].start, text |-> Printed(files[n])]
      BY DEF Notes
    <3> QED
      BY <3>1, <3>2, <3>3, <3>4, <3>5, NotesAre
  <2>3. Book!Answer(Book!Says("done"))
    BY <1>4, PromptAnswers, SaysIs
  <2>4. Book!Touch
    BY <1>1, <1>2, <2>1, <2>2, <2>3 DEF Book!Touch, Notes
  <2> QED
    BY <2>4 DEF Book!Next
<1> QED
  BY <1>3, <1>4 DEF cmd_touch

LEMMA RmIs == ASSUME RInv, cmd_rm PROVE Book!Next
<1>1. pc = "done" /\ argc >= 2 /\ argc > 0 /\ Argument(1) = Named["rm"]
  BY DEF cmd_rm, Runs
<1>2. /\ Book!Command("rm") /\ Len(Book!Args) = argc
      /\ Book!Args[2] = Argument(2) /\ argc \in Nat
  BY <1>1, SecondWord, WordsInArgv
<1>3. CASE Prompt(Says("failed")) /\ UNCHANGED files
  <2>1. ~ (argc < 2)
    BY <1>1, <1>2
  <2>2. Book!Complain("rm", 2)
    BY <1>1, <1>3, <2>1, Fails
  <2> QED
    BY <2>2 DEF Book!Next
<1>4. CASE /\ Exists
           /\ files' = [n \in DOMAIN files \ {Argument(2)} |-> files[n]]
           /\ Prompt(Says("done"))
  <2>1. Argument(2) \in DOMAIN Notes
    BY <1>4, NotesAre DEF Exists
  <2>2. Notes' = [n \in DOMAIN Notes \ {Argument(2)} |-> Notes[n]]
    <3>1. DOMAIN files' = DOMAIN files \ {Argument(2)}
      BY <1>4
    <3>2. \A n \in DOMAIN files' : files'[n] = files[n]
      BY <1>4
    <3>3. Notes' = [n \in DOMAIN files' |-> [written |-> files'[n].start,
                                             text |-> Printed(files'[n])]]
      BY DEF Notes, Printed
    <3>4. \A n \in DOMAIN files :
            Notes[n] = [written |-> files[n].start, text |-> Printed(files[n])]
      BY DEF Notes
    <3> QED
      BY <3>1, <3>2, <3>3, <3>4, NotesAre
  <2>3. Book!Answer(Book!Says("done"))
    BY <1>4, PromptAnswers, SaysIs
  <2>4. Book!Forget
    BY <1>1, <1>2, <2>1, <2>2, <2>3 DEF Book!Forget, Notes
  <2> QED
    BY <2>4 DEF Book!Next
<1> QED
  BY <1>3, <1>4 DEF cmd_rm

LEMMA CatIs == ASSUME RInv, cmd_cat PROVE Book!Next
<1>1. /\ pc = "done" /\ argc >= 2 /\ argc > 0 /\ Argument(1) = Named["cat"]
      /\ UNCHANGED files
  BY DEF cmd_cat, Runs
<1>2. /\ Book!Command("cat") /\ Len(Book!Args) = argc
      /\ Book!Args[2] = Argument(2) /\ argc \in Nat
  BY <1>1, SecondWord, WordsInArgv
<1>3. CASE Prompt(Says("failed"))
  <2>1. ~ (argc < 2)
    BY <1>1, <1>2
  <2>2. Book!Complain("cat", 2)
    BY <1>1, <1>3, <2>1, Fails
  <2> QED
    BY <2>2 DEF Book!Next
<1>4. CASE /\ Exists /\ files[Argument(2)].start
           /\ Prompt([says |-> "text", text |-> Printed(files[Argument(2)])])
  <2>1. /\ Argument(2) \in DOMAIN Notes /\ Notes[Argument(2)].written
        /\ Notes[Argument(2)].text = Printed(files[Argument(2)])
    BY <1>4, NotesAre DEF Exists
  <2>2. Book!Answer(Book!Shows(Notes[Argument(2)].text))
    BY <1>4, <2>1, PromptAnswers DEF Book!Shows
  <2>3. Notes' = Notes
    BY <1>1, NotesStay
  <2>4. Book!Show
    BY <1>1, <1>2, <2>1, <2>2, <2>3 DEF Book!Show, Notes
  <2> QED
    BY <2>4 DEF Book!Next
<1> QED
  BY <1>3, <1>4 DEF cmd_cat

LEMMA ShortIs ==
  ASSUME RInv, NoCommand \/ UnknownCommand \/ OtherCommand \/ cmd_mkfs
  PROVE  Book!Next
<1>1. /\ IInv /\ pc = "done" /\ (argc = 0 <=> Book!Args = <<>>)
      /\ argc \in Nat
      /\ argc > 0 => Book!Args[1] = Argument(1)
  <2>1. IInv /\ pc = "done"
    BY DEF RInv, NoCommand, UnknownCommand, OtherCommand, cmd_mkfs, Runs
  <2>2. argc \in Nat /\ (argc > 0 => 1 \in 1 .. argc)
    BY <2>1, WordsInArgv
  <2> QED
    BY <2>1, <2>2, CommandIs
<1>2. CASE NoCommand
  <2>1. Book!Answer(Book!Says("nothing")) /\ Notes' = Notes
    BY <1>2, PromptAnswers, SaysIs, NotesStay DEF NoCommand
  <2>2. Book!Nothing
    BY <1>1, <1>2, <2>1 DEF NoCommand, Book!Nothing, Notes
  <2> QED
    BY <2>2 DEF Book!Next
<1>3. CASE UnknownCommand
  <2>1. Book!Answer(Book!Says("unknown")) /\ Notes' = Notes
    BY <1>3, PromptAnswers, SaysIs, NotesStay DEF UnknownCommand
  <2>2. Book!Unknown
    BY <1>1, <1>3, <2>1 DEF UnknownCommand, Book!Unknown, Notes
  <2> QED
    BY <2>2 DEF Book!Next
<1>4. CASE OtherCommand
  <2>1. Book!Answer(Book!Says("print")) /\ Notes' = Notes
    BY <1>4, PromptAnswers, SaysIs, NotesStay DEF OtherCommand
  <2>2. Book!Command("print")
    BY <1>1, <1>4, RunsIs DEF OtherCommand, Runs
  <2>3. Book!Chat
    BY <2>1, <2>2 DEF Book!Chat, Notes
  <2> QED
    BY <2>3 DEF Book!Next
<1>5. CASE cmd_mkfs
  <2>1. Book!Answer(Book!Says("done"))
    BY <1>5, PromptAnswers, SaysIs DEF cmd_mkfs
  <2>2. Book!Command("mkfs")
    BY <1>1, <1>5, RunsIs DEF cmd_mkfs, Runs
  <2>3. PICK left \in SUBSET DOMAIN files : files' = [n \in left |-> files[n]]
    BY <1>5 DEF cmd_mkfs
  <2>4. left \in SUBSET DOMAIN Notes /\ Notes' = [n \in left |-> Notes[n]]
    <3>1. Notes' = [n \in DOMAIN files' |-> [written |-> files'[n].start,
                                             text |-> Printed(files'[n])]]
      BY DEF Notes, Printed
    <3>2. DOMAIN files' = left /\ \A n \in left : files'[n] = files[n]
      BY <2>3
    <3>3. \A n \in DOMAIN files :
            Notes[n] = [written |-> files[n].start, text |-> Printed(files[n])]
      BY DEF Notes
    <3> QED
      BY <2>3, <3>1, <3>2, <3>3, NotesAre
  <2>5. Book!Format
    BY <2>1, <2>2, <2>4 DEF Book!Format, Notes
  <2> QED
    BY <2>5 DEF Book!Next
<1> QED
  BY <1>2, <1>3, <1>4, <1>5

LEMMA UsageIs ==
  ASSUME RInv, NEW c, NEW n, Usage(c, n)
  PROVE  Book!Complain(c, n)
<1>1. /\ pc = "done" /\ argc > 0 /\ argc < n /\ Argument(1) = Named[c]
      /\ UNCHANGED files /\ Prompt(Says("usage"))
  BY DEF Usage, Runs
<1> QED
  BY <1>1, Fails

(* Which of the two commands the text is for.                              *)
LEMMA TextOf ==
  ASSUME RInv, NEW c \in {"echo", "write"}, IsText(c)
  PROVE  /\ IInv /\ argc \in Nat /\ argc >= 1
         /\ c = "echo" => text = Book!Joined(From(2))
         /\ c = "write" => argc >= 3 /\ text = Book!Joined(From(3))
         /\ text \in Seq(Letter)
<1>1. /\ IInv /\ TextPart /\ pc = "text" /\ i = argc + 1
      /\ Argument(1) = Named[c]
  BY DEF RInv, IsText
<1>2. argc \in Nat
  BY <1>1, WordsInArgv
<1>3. Named["echo"] # Named["write"]
  <2>1. "echo" \in DOMAIN Named /\ "write" \in DOMAIN Named /\ "echo" # "write"
    BY ShellAssumption
  <2> QED
    BY <2>1, ShellAssumption
<1>4. /\ c = "echo" => argc >= 1 /\ TextFrom(2)
      /\ c = "write" => argc >= 3 /\ TextFrom(3)
  BY <1>1, <1>3 DEF TextPart
<1>5. /\ c = "echo" => text = Book!Joined(From(2))
      /\ c = "write" => text = Book!Joined(From(3))
  BY <1>1, <1>4, WholeText
<1> QED
  BY <1>1, <1>2, <1>4, <1>5 DEF TextPart

LEMMA EchoIs == ASSUME RInv, cmd_echo PROVE Book!Next
<1>1. /\ IsText("echo") /\ pc = "text" /\ Argument(1) = Named["echo"]
      /\ Prompt([says |-> "text", text |-> text]) /\ UNCHANGED files
  BY DEF cmd_echo, IsText
<1>2. IInv /\ argc \in Nat /\ argc >= 1 /\ text = Book!Joined(From(2))
  BY <1>1, TextOf
<1>3. Book!Command("echo")
  BY <1>1, <1>2, RunsIs
<1>4. From(2) = Tail(Book!Args)
  <2>1. Book!Args \in Seq(Seq(Letter)) /\ Len(Book!Args) = argc /\ Book!Args # <<>>
    BY <1>1, <1>2, ArgsInArgv, CommandIs
  <2> QED
    BY <2>1, TailIsSubSeq DEF From
<1>5. Book!Answer(Book!Shows(Book!Joined(Tail(Book!Args))))
  BY <1>1, <1>2, <1>4, PromptAnswers DEF Book!Shows
<1>6. Notes' = Notes
  BY <1>1, NotesStay
<1>7. Book!Echo
  BY <1>3, <1>5, <1>6 DEF Book!Echo, Notes
<1> QED
  BY <1>7 DEF Book!Next

(* What one file's change shows of it.                                     *)
LEMMA NoteChanges ==
  ASSUME NEW a \in DOMAIN files, NEW f, files' = [files EXCEPT ![a] = f]
  PROVE  Notes' = [Notes EXCEPT ![a] = [written |-> f.start, text |-> Printed(f)]]
<1>1. /\ DOMAIN files' = DOMAIN files
      /\ \A n \in DOMAIN files : files'[n] = IF n = a THEN f ELSE files[n]
  OBVIOUS
<1>2. Notes' = [n \in DOMAIN files |-> [written |-> files'[n].start,
                                        text |-> Printed(files'[n])]]
  BY <1>1 DEF Notes, Printed
<1> QED
  BY <1>1, <1>2 DEF Notes

LEMMA WriteIs == ASSUME RInv, cmd_write PROVE Book!Next
<1> DEFINE a == Argument(2)
           whole == [start |-> TRUE, size |-> Len(text), sector |-> text]
           half == [files[a] EXCEPT !.sector = text]
<1>1. /\ IsText("write") /\ pc = "text" /\ Argument(1) = Named["write"]
      /\ \/ Prompt(Says("failed")) /\ UNCHANGED files
         \/ /\ a \in DOMAIN files
            /\ files' = [files EXCEPT ![a] = whole]
            /\ Prompt(Says("done"))
         \/ /\ a \in DOMAIN files /\ files[a].start
            /\ files' = [files EXCEPT ![a] = half]
            /\ Prompt(Says("failed"))
  BY DEF cmd_write, IsText, Exists
<1>2. /\ IInv /\ argc \in Nat /\ argc >= 3
      /\ text = Book!Joined(From(3)) /\ text \in Seq(Letter)
  BY <1>1, TextOf
<1>3. /\ Book!Command("write") /\ Len(Book!Args) = argc /\ Book!Args[2] = a
      /\ FilesPart
  BY <1>1, <1>2, SecondWord
<1>4. text = Book!Text /\ Len(text) \in Nat
  BY <1>2, <1>3, LenProperties DEF Book!Text, From
<1> HIDE DEF a
<1>5. CASE Prompt(Says("failed")) /\ UNCHANGED files
  <2>1. ~ (argc < 3)
    BY <1>2
  <2>2. Book!Complain("write", 3)
    BY <1>1, <1>2, <1>5, <2>1, Fails
  <2> QED
    BY <2>2 DEF Book!Next
<1>6. CASE /\ a \in DOMAIN files
           /\ files' = [files EXCEPT ![a] = whole]
           /\ Prompt(Says("done"))
  <2>1. Printed(whole) = text /\ whole.start = TRUE
    <3>1. Printed(whole) = SubSeq(text, 1, Len(text))
      BY <1>4 DEF Printed
    <3> QED
      BY <1>2, <3>1, SubSeqFull
  <2>2. Notes' = [Notes EXCEPT ![a] = Book!Note(Book!Text)]
    <3> HIDE DEF whole
    <3> QED
      BY <1>4, <1>6, <2>1, NoteChanges DEF Book!Note
  <2>3. Book!Answer(Book!Says("done")) /\ a \in DOMAIN Notes
    BY <1>6, PromptAnswers, SaysIs, NotesAre
  <2>4. Book!Write
    BY <1>2, <1>3, <2>2, <2>3 DEF Book!Write, Notes
  <2> QED
    BY <2>4 DEF Book!Next
<1>7. CASE /\ a \in DOMAIN files /\ files[a].start
           /\ files' = [files EXCEPT ![a] = half]
           /\ Prompt(Says("failed"))
  <2> DEFINE k == IF files[a].size < Len(text) THEN files[a].size ELSE Len(text)
  <2>1. files[a] \in File
    BY <1>3, <1>7 DEF FilesPart
  <2>2. half.start = TRUE /\ half.size = files[a].size /\ half.sector = text
    BY <1>7, <2>1 DEF File
  <2>3. Printed(half) = SubSeq(Book!Text, 1, k)
    <3> HIDE DEF half
    <3> QED
      BY <1>4, <2>2 DEF Printed
  <2>4. k \in 0 .. Len(Book!Text)
    BY <1>4, <2>1 DEF File
  <2>5. Notes' = [Notes EXCEPT ![a] = Book!Note(SubSeq(Book!Text, 1, k))]
    <3> HIDE DEF half, k
    <3> QED
      BY <1>7, <2>2, <2>3, NoteChanges DEF Book!Note
  <2>6. /\ Book!Answer(Book!Says("failed"))
        /\ a \in DOMAIN Notes /\ Notes[a].written
    BY <1>7, PromptAnswers, SaysIs, NotesAre
  <2>7. Book!WriteHalf
    <3> HIDE DEF k
    <3> QED
      BY <1>2, <1>3, <2>4, <2>5, <2>6 DEF Book!WriteHalf, Notes
  <2> QED
    BY <2>7 DEF Book!Next
<1> QED
  BY <1>1, <1>5, <1>6, <1>7

(* The steps of the pass and of the loop over the arguments do not show.   *)
LEMMA HiddenSteps ==
  ASSUME UNCHANGED <<cmd, files, out>>, pc # "prompt", pc' # "prompt"
  PROVE  UNCHANGED Book!vars
<1>1. Notes' = Notes
  BY NotesStay
<1> QED
  BY <1>1 DEF Book!vars, Notes

LEMMA EnterIs == ASSUME NEW l \in Line, Enter(l) PROVE Book!Next
<1>1. /\ pc = "prompt" /\ pc' = "argument" /\ cmd' = l
      /\ out' = Book!Says("nothing") /\ UNCHANGED files
  BY SaysIs DEF Enter, StartLine
<1>2. Notes' = Notes
  BY <1>1, NotesStay
<1>3. Book!Type(l)
  BY <1>1, <1>2 DEF Book!Type, Notes
<1> QED
  BY <1>3 DEF Book!Next

LEMMA StepIs == RInv /\ [Next]_vars => [Book!Next]_Book!vars
<1> SUFFICES ASSUME RInv, [Next]_vars
             PROVE  Book!Next \/ UNCHANGED Book!vars
  OBVIOUS
<1>1. CASE \E l \in Line : Enter(l)
  BY <1>1, EnterIs
<1>2. CASE CutLine /\ UNCHANGED <<files, text, i, out>>
  <2>1. cmd' = cmd
    BY <1>2 DEF CutLine, NextArgument, SkipSpace, StartArgument, SkipLetter,
       EndArgument, EndLine
  <2> QED
    BY <1>2, <2>1, CutKeepsPc, HiddenSteps
<1>3. CASE StartText("echo", 2, 1) \/ StartText("write", 3, 3) \/ AddArgument
  <2>1. /\ UNCHANGED <<cmd, files, out>>
        /\ pc # "prompt" /\ pc' # "prompt"
    BY <1>3 DEF StartText, Runs, AddArgument, line_vars
  <2> QED
    BY <2>1, HiddenSteps
<1>4. CASE Ends
  <2>1. CASE \/ Usage("touch", 2) \/ Usage("rm", 2) \/ Usage("cat", 2)
             \/ Usage("write", 3)
    BY <2>1, UsageIs DEF Book!Next
  <2> QED
    BY <1>4, <2>1, ShortIs, TouchIs, RmIs, CatIs, EchoIs, WriteIs DEF Ends
<1>5. CASE UNCHANGED vars
  <2>1. UNCHANGED <<cmd, files, out, pc>>
    BY <1>5 DEF vars, line_vars
  <2>2. Notes' = Notes
    BY <2>1, NotesStay
  <2> QED
    BY <2>1, <2>2 DEF Book!vars, Notes
<1> QED
  BY <1>1, <1>2, <1>3, <1>4, <1>5, NextIs

LEMMA InitIs == Init => Book!Init
<1> SUFFICES ASSUME Init PROVE Book!Init
  OBVIOUS
<1>1. files = [n \in {} |-> NoSector] /\ DOMAIN files = {}
  BY DEF Init, NoFiles
<1>2. Notes = Book!NoNotes
  BY <1>1 DEF Notes, Book!NoNotes
<1> QED
  BY <1>2, SaysIs DEF Init, Book!Init, Notes

(* Whatever is typed, as long as the names given to touch are shorter than *)
(* SIMPLEFS_MAX_NAME, and whichever calls of the file system fail, the     *)
(* shell does with the files and shows what Notebook says: each line runs  *)
(* the command its first word names, with the words of the line whole and  *)
(* in order, and a text comes back as it was joined; mkfs answers that it  *)
(* is done also when files are left (shell.c:85-195, 244-310).             *)
THEOREM Refinement == Spec => ImplementsNotebook
<1>1. Init => Book!Init
  BY InitIs
<1>2. RInv /\ [Next]_vars => [Book!Next]_Book!vars
  BY StepIs
<1> QED
  BY <1>1, <1>2, RInvariance, PTL DEF Spec, ImplementsNotebook, Book!Spec

=============================================================================
