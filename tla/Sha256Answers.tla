--------------------------- MODULE Sha256Answers ---------------------------
(***************************************************************************)
(* Messages of every length over two block boundaries, and the digests of  *)
(* some: the two examples of FIPS 180 ("abc" and the one of 448 bits), and *)
(* messages 0, 1, 2, ... at the boundaries of the padding, by another      *)
(* implementation.  A byte is the set of its one-bits, as in Sha256.       *)
(***************************************************************************)
EXTENDS Integers, Sequences

CONSTANT MaxLength

Bits8(n) == {b \in 0 .. 7 : (n \div 2^b) % 2 = 1}
Bytes(numbers) == [i \in DOMAIN numbers |-> Bits8(numbers[i])]
Counting(n) == Bytes([i \in 1 .. n |-> i - 1])
Abc == Bytes(<<97, 98, 99>>)
\* "abcd", "bcde", ..., "nopq".
Example448 == Bytes([i \in 1 .. 56 |-> 97 + ((i - 1) \div 4) + ((i - 1) % 4)])

ShortMessages == {Counting(n) : n \in 0 .. MaxLength} \cup {Abc, Example448}

CountingAnswer(n) ==
  CASE n = 1 -> <<\h6E, \h34, \h0B, \h9C, \hFF, \hB3, \h7A, \h98, \h9C, \hA5, \h44, \hE6, \hBB, \h78, \h0A, \h2C,
       \h78, \h90, \h1D, \h3F, \hB3, \h37, \h38, \h76, \h85, \h11, \hA3, \h06, \h17, \hAF, \hA0, \h1D>>
    [] n = 40 -> <<\h5F, \hAA, \h4E, \hEC, \h36, \h11, \h55, \h68, \h12, \hC2, \hD7, \h4B, \h43, \h7C, \h8C, \h49,
       \hAD, \hD3, \hF9, \h10, \hF1, \h00, \h63, \hD8, \h01, \h44, \h1F, \h7D, \h75, \hCD, \h5E, \h3B>>
    [] n = 55 -> <<\h46, \h3E, \hB2, \h8E, \h72, \hF8, \h2E, \h0A, \h96, \hC0, \hA4, \hCC, \h53, \h69, \h0C, \h57,
       \h12, \h81, \h13, \h1F, \h67, \h2A, \hA2, \h29, \hE0, \hD4, \h5A, \hE5, \h9B, \h59, \h8B, \h59>>
    [] n = 56 -> <<\hDA, \h2A, \hE4, \hD6, \hB3, \h67, \h48, \hF2, \hA3, \h18, \hF2, \h3E, \h7A, \hB1, \hDF, \hDF,
       \h45, \hAC, \hDC, \h9D, \h04, \h9B, \hD8, \h0E, \h59, \hDE, \h82, \hA6, \h08, \h95, \hF5, \h62>>
    [] n = 63 -> <<\h29, \hAF, \h26, \h86, \hFD, \h53, \h37, \h4A, \h36, \hB0, \h84, \h66, \h94, \hCC, \h34, \h21,
       \h77, \hE4, \h28, \hD1, \h64, \h75, \h15, \hF0, \h78, \h78, \h4D, \h69, \hCD, \hB9, \hE4, \h88>>
    [] n = 64 -> <<\hFD, \hEA, \hB9, \hAC, \hF3, \h71, \h03, \h62, \hBD, \h26, \h58, \hCD, \hC9, \hA2, \h9E, \h8F,
       \h9C, \h75, \h7F, \hCF, \h98, \h11, \h60, \h3A, \h8C, \h44, \h7C, \hD1, \hD9, \h15, \h11, \h08>>
    [] n = 119 -> <<\hDA, \h18, \h79, \h7E, \hD7, \hC3, \hA7, \h77, \hF0, \h84, \h7F, \h42, \h97, \h24, \hA2, \hD8,
       \hCD, \h51, \h38, \hE6, \hED, \h28, \h95, \hC3, \hFA, \h1A, \h6D, \h39, \hD1, \h8F, \h7E, \hC6>>
    [] n = 120 -> <<\hF5, \h2B, \h23, \hDB, \h1F, \hBB, \h6D, \hED, \h89, \hEF, \h42, \hA2, \h3C, \hE0, \hC8, \h92,
       \h2C, \h45, \hF2, \h5C, \h50, \hB5, \h68, \hA9, \h3B, \hF1, \hC0, \h75, \h42, \h0B, \hBB, \h7C>>

Answers ==
  [m \in {Abc, Example448} \cup {Counting(n) : n \in {1, 40, 55, 56, 63, 64, 119, 120}} |->
     Bytes(IF m = Abc THEN
    <<\hBA, \h78, \h16, \hBF, \h8F, \h01, \hCF, \hEA, \h41, \h41, \h40, \hDE, \h5D, \hAE, \h22, \h23,
       \hB0, \h03, \h61, \hA3, \h96, \h17, \h7A, \h9C, \hB4, \h10, \hFF, \h61, \hF2, \h00, \h15, \hAD>>
    ELSE IF m = Example448 THEN
    <<\h24, \h8D, \h6A, \h61, \hD2, \h06, \h38, \hB8, \hE5, \hC0, \h26, \h93, \h0C, \h3E, \h60, \h39,
       \hA3, \h3C, \hE4, \h59, \h64, \hFF, \h21, \h67, \hF6, \hEC, \hED, \hD4, \h19, \hDB, \h06, \hC1>>
    ELSE CountingAnswer(Len(m)))]
=============================================================================
