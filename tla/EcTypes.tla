------------------------------ MODULE EcTypes ------------------------------
(***************************************************************************)
(* The data types of PDO entries and SDOs that the block ec_slave3 knows   *)
(* (src/rtw/blocks/EtherCAT/ec_slave3.c). A type is its id: thousands give *)
(* the class (1 unsigned, 2 signed, 3 floating point), the rest the bits.  *)
(***************************************************************************)
EXTENDS Integers

(* datatype_info.                                                          *)
DataType ==
  {1000 + b : b \in 1 .. 8 \cup {16, 24, 32, 40, 48, 56, 64}}
    \cup {2000 + b : b \in {8, 16, 32, 64}} \cup {3032, 3064}

NoType == 0   \* NULL
BadType == -1 \* NULL, and the error status is set

MantBits(dt) == dt % 1000

(* Mutant: every type of whole bytes is generic.                           *)
BytesAreGeneric(dt) == MantBits(dt) % 8 = 0

IsGeneric(dt) == MantBits(dt) \in {8, 16, 32, 64}

SlTypes == {"boolean", "uint8", "uint16", "uint32", "int8", "int16", "int32",
            "single", "double"}

(* The Simulink type that a PDO of the type is shown as. Simulink has no   *)
(* integers of more than 32 bits: these are shown as double.               *)
SlType(dt) ==
  CASE dt = 1001           -> "boolean"
    [] dt \in 1002 .. 1008 -> "uint8"
    [] dt = 1016           -> "uint16"
    [] dt \in {1024, 1032} -> "uint32"
    [] dt = 2008           -> "int8"
    [] dt = 2016           -> "int16"
    [] dt = 2032           -> "int32"
    [] dt = 3032           -> "single"
    [] OTHER               -> "double"

SlBytes(t) == CASE t \in {"boolean", "uint8", "int8"}   -> 1
                [] t \in {"uint16", "int16"}            -> 2
                [] t \in {"uint32", "int32", "single"}  -> 4
                [] t = "double"                         -> 8

-----------------------------------------------------------------------------
(* How a configuration names a type *)

(* A number is an id, or the number of bits: negative for signed integers, *)
(* a fraction for floating point. It is given in hundredths.               *)
OfReal(h) ==
  CASE h \div 100 \in DataType                           -> h \div 100
    [] h \in {32, 64}                                    -> 3000 + h
    [] h % 100 = 0 /\ 1000 + h \div 100 \in DataType     -> 1000 + h \div 100
    [] h % 100 = 0 /\ h < 0 /\ 2000 - h \div 100 \in DataType
                                                         -> 2000 - h \div 100
    [] OTHER                                             -> NoType

(* What a configuration has in the place of a type: nothing; a number; the *)
(* name of a type or an unknown name; a structure or a NumericType object  *)
(* for an integer, a float or another class; or one with a field missing.  *)
TypeSpec == [kind : {"none", "other", "bad"}]
              \cup [kind : {"number"}, hundredths : Int]
              \cup [kind : {"name"}, id : DataType \cup {NoType}]
              \cup [kind : {"integer"}, signed : BOOLEAN, bits : Nat]
              \cup [kind : {"float"}, bits : {32, 64}]

OrBad(dt) == IF dt = NoType THEN BadType ELSE dt

(* get_data_type. Zero and other classes are no type, without an error.    *)
GetDataType(spec) ==
  CASE spec.kind \in {"none", "other"} -> NoType
    [] spec.kind = "number"  -> IF spec.hundredths = 0 THEN NoType
                                ELSE OrBad(OfReal(spec.hundredths))
    [] spec.kind = "name"    -> OrBad(spec.id)
    [] spec.kind = "integer" ->
         OrBad(OfReal(100 * ((IF spec.signed THEN 2000 ELSE 1000) + spec.bits)))
    [] spec.kind = "float"   -> 3000 + spec.bits
    [] spec.kind = "bad"     -> BadType
=============================================================================
