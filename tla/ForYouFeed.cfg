SPECIFICATION ForYouSpec
CONSTANTS
    p1 = p1
    p2 = p2
    p3 = p3
    anime = anime
    city = city
    ann = ann
    ben = ben
    None = None
    c1 = c1
    c2 = c2
    Posts = {p1, p2, p3}
    Topics = {anime, city}
    Creators = {ann, ben}
    TopicOf <- MCTopicOf
    AuthorOf <- MCAuthorOf
    CreatedAt <- MCCreatedAt
    Trending = {p1, p2}
    ScoreTables <- MCScores
    UserCalls = {c1, c2}
    Batches <- MCBatches
    Limit = 1
    TakeSize = 2
    Sources = {p1}
    Removable = {p1}
INVARIANTS
    ProfileIsSum
    
    
    OneSignalPerFollow
CHECK_DEADLOCK FALSE
