----------------------------- MODULE AuthManager -----------------------------
(***************************************************************************)
(* The identity of the device: the singleton AuthManager, which onStart    *)
(* initialises each time, and the Android Keystore, which outlives the     *)
(* process.  An exception of the Keystore ends the process; it is not      *)
(* modelled.  The JNIEnv is never null in this program.                    *)
(*                                                                         *)
(* A text is a sequence of bytes.  base64url maps each sextet to a         *)
(* character of its own; here the sextet stands for the character.         *)
(***************************************************************************)
EXTENDS Integers, Sequences

CONSTANT KeyAlias  \* the bytes of "ec_device_key"

VARIABLES
  keystore,  \* number of the key pair under KeyAlias, 0: there is none
  auth       \* [m_initialized, m_device_token] of the singleton

-----------------------------------------------------------------------------
(* base64url. *)

(* The i-th byte, 0 after the end of the data. *)
ByteAt(data, i) == IF i <= Len(data) THEN data[i] ELSE 0

(* b, the three bytes of group g as one number. *)
Group(data, g) == 65536 * ByteAt(data, 3 * g + 1)
                  + 256 * ByteAt(data, 3 * g + 2) + ByteAt(data, 3 * g + 3)

(* The sextet of b at place p, where 0 is the highest. *)
Sextet(b, p) == CASE p = 0 -> (b \div 262144) % 64
                  [] p = 1 -> (b \div 4096) % 64
                  [] p = 2 -> (b \div 64) % 64
                  [] p = 3 -> b % 64

(* Every group gives four characters; those that encode no bit of the data *)
(* are "=", and are erased at the end.                                     *)
base64url(data) ==
  [i \in 1..((4 * Len(data) + 2) \div 3) |->
     Sextet(Group(data, (i - 1) \div 4), (i - 1) % 4)]

(* The inverse, as any reader of a token computes it. *)
Decode(text) ==
  [j \in 1..((3 * Len(text)) \div 4) |->
     LET i == 4 * ((j - 1) \div 3)
         p == (j - 1) % 3
     IN  CASE p = 0 -> 4 * text[i + 1] + text[i + 2] \div 16
           [] p = 1 -> 16 * (text[i + 2] % 16) + text[i + 3] \div 4
           [] p = 2 -> 64 * (text[i + 3] % 4) + text[i + 4]]

-----------------------------------------------------------------------------
(* The token. *)

(* { "device":" *)
Before == <<123, 32, 34, 100, 101, 118, 105, 99, 101, 34, 58, 34>>
(* " } *)
After  == <<34, 32, 125>>

Claims == Before \o KeyAlias \o After

(* Mutant: the text is two bytes shorter. *)
Bug_QuotesNotCounted == base64url(SubSeq(Claims, 1, Len(KeyAlias) + 12))

(* The token without its constant header and signature: the bytes of the   *)
(* claims, as many as init() counts.                                       *)
TokenPayload == base64url(SubSeq(Claims, 1, Len(KeyAlias) + 14))

-----------------------------------------------------------------------------
NoToken == <<>>

Init == /\ keystore = 0
        /\ auth = [initialized |-> FALSE, token |-> NoToken]

(* init(env): a key pair is generated unless the Keystore has the alias. *)
InitKeys ==
  /\ keystore' = IF keystore # 0 THEN keystore ELSE 1
  /\ auth' = [initialized |-> TRUE, token |-> TokenPayload]

(* The process ends: the singleton is gone, the Keystore stays. *)
Restart == /\ auth' = [initialized |-> FALSE, token |-> NoToken]
           /\ UNCHANGED keystore

(* What a reader of the token needs is in it: the claims name the device   *)
(* whole, although init() counts one byte less than they have              *)
(* (AuthManager.cpp:141).                                                  *)
TokenNamesDevice ==
  auth.initialized =>
    LET whole == Before \o KeyAlias \o <<After[1]>>
        text  == Decode(auth.token)
    IN  Len(whole) <= Len(text) /\ \A i \in 1..Len(whole) : text[i] = whole[i]
=============================================================================
