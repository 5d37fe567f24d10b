\* Packets and pages of two clients beside the main loop.
SPECIFICATION FairSpec
CONSTANTS
  x1 = x1
  x2 = x2
  udp = udp
  page = page
  Xuid = {x1, x2}
  Thread = {udp, page}
  Work <- PacketsAndPages
  About <- PagesOfOne
  BanFile <- BanLists
  Main = Main
  Free = Free
  NoXuid = NoXuid
PROPERTIES
  Undisturbed
  DetectedStaysUnclean
  DeadClientsGo
  BansReturn
