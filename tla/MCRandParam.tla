---------------------------- MODULE MCRandParam ----------------------------
(* All inputs of up to InputLength bytes that hold no 3 after the first      *)
(* byte, which is a length like 2, and signatures of two parameters.         *)
EXTENDS RandParam

CONSTANT InputLength

MCInputs ==
    {<<>>} \cup UNION { {<<first>> \o rest : first \in Byte, rest \in [1 .. n -> Byte \ {3}]} :
                           n \in 0 .. InputLength - 1 }

MCSignatures ==
    { <<"string", "int8">>, <<"strings", "reader">>, <<"int64", "string">>,
      <<"ints", "string">>, <<"writer", "context">> }

=============================================================================
