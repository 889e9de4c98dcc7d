CONSTANTS
  trip = trip
  home = home
  a1 = a1
  a2 = a2
  a3 = a3
  a4 = a4
  a5 = a5
  a6 = a6
  sA = sA
  sA2 = sA2
  Count = 3
  Folder = {trip, home}
  Name = {a1, a2, a3, a4, a5, a6}
  Stem = {sA, sA2}
  MaxIndex = 6
  Named <- MCNamed
  Members <- MCMembers
  StemOf <- MCStemOf
  Faults = {"stop", "put", "link", "place", "damage", "intrude"}
  MaxFaults = 2
  Other = Other
  Nobody = Nobody
SPECIFICATION FairSpec
INVARIANTS AlbumsComplete
PROPERTIES AlbumLibrary EventuallyComplete
