CONSTANTS
  pic = pic
  vid = vid
  copy = copy
  a1 = a1
  a2 = a2
  a3 = a3
  a4 = a4
  b1 = b1
  sA = sA
  sA2 = sA2
  sB = sB
  Group = {pic, vid, copy}
  Webm = {vid}
  Empty = {}
  Unread = {pic}
  Path = {a1, a2, a3, a4, b1}
  Stem = {sA, sA2, sB}
  MaxIndex = 4
  Named <- MCNamed
  StemOf <- MCStemOf
  FFmpeg = {TRUE}
  MaxFaults = 2
  Intruders = {a1}
  Other = Other
  Nobody = Nobody
  NoPath = NoPath
  Marked = Marked
SPECIFICATION FairSpec
INVARIANTS RecordsTrue AdoptionTrue OneHome BytesSurvive SuccessIsComplete
PROPERTIES LibrarySpec EventuallySucceeds
