\* Two processes share four pages of two bytes, with words of five bits: requests of
\* a page, of more than one and of almost a whole word; offsets that wrap.
CONSTANTS
  Proc = {1, 2}
  Reg = {0}
  Sizes = {1, 3, 30}
  Offsets = {1, 31}
  Bytes = {0, 1}
  OFFSET_LEN = 1
  SECOND_LV_LEN = 1
  FIRST_LV_LEN = 1
  WORD = 32
SPECIFICATION Spec
INVARIANTS
  TypeOK
  ValidBelowBreak
  OwnersAgree
  ChainsFollowAddresses
PROPERTY SpacesRefined
